---- MODULE Spec2Model ----
(***************************************************************************)
(* State-machine model of the project-relevance ranking, keyword-gap and   *)
(* composite-score code of AlignAI:                                        *)
(*   src/src/latex_parser.py  LaTeXProjectParser (parse, score, rank)      *)
(*   src/src/utils.py         extract_keywords_from_text, format_score     *)
(*   src/src/llm_pipeline.py  LLMPipeline.analyze_resume                   *)
(*   src/app.py               analyze_resume_with_projects                 *)
(*   src/src/analyzer.py      ResumeAnalyzer.analyze_resume_latex_only     *)
(*                                                                         *)
(* Text is modelled at word level: a text is a sequence of words, a word   *)
(* is a string of the Vocabulary whose characters are given by Spelling.   *)
(* Substring tests, lowercasing, alphabetical order and hashing are        *)
(* computed on the characters.  Scores with one decimal are integers in    *)
(* tenths (75.5 is 755).                                                   *)
(***************************************************************************)
EXTENDS Integers, Sequences, FiniteSets, TLC

(***************************************************************************)
(* Bounds of the model                                                     *)
(***************************************************************************)
\* longest list of projects handed to one call
MaxProjects == 4
\* largest top_k handed to rank_projects_for_job (-1 is also tried)
MaxTopK == 4
\* number of per-process string-hash seeds (PYTHONHASHSEED values) tried
NumSeeds == 2
\* largest max_keywords handed to extract_keywords_from_text besides its
\* default
MaxKeywordsTried == 6
\* number of lines of the texts handed to the PDF project parser
MaxLines == 3
\* number of requests the backend API serves in one behaviour
MaxRequests == 2
\* the same for the behaviours with large uploads
MaxBulkRequests == 3
\* number of calls of upload_projects_latex in one behaviour
MaxUploads == 3
\* number of scans and of changes of the directory in one behaviour
MaxScans == 2
MaxEdits == 1

(***************************************************************************)
(* Characters and words                                                    *)
(***************************************************************************)
\* the characters of the vocabulary in code-point order (space sorts first)
Alphabet ==
  << " ", "D", "P", "a", "b", "c", "d", "e", "f", "g", "h", "i", "j", "k", "l",
     "m", "n", "o", "p", "r", "s", "t", "u", "v", "w", "x", "y", "z" >>

CharOrd(c) == CHOOSE i \in 1..Len(Alphabet) : Alphabet[i] = c

\* str.lower() on one character
LowerChar(c) == IF c = "P" THEN "p" ELSE IF c = "D" THEN "d" ELSE c

\* str.isalpha() on one character
IsAlphaChar(c) == c /= " "

\* the words texts are made of, each with its characters
Spelling ==
  [ Python       |-> <<"P","y","t","h","o","n">>,
    python       |-> <<"p","y","t","h","o","n">>,
    Docker       |-> <<"D","o","c","k","e","r">>,
    docker       |-> <<"d","o","c","k","e","r">>,
    java         |-> <<"j","a","v","a">>,
    javascript   |-> <<"j","a","v","a","s","c","r","i","p","t">>,
    kubernetes   |-> <<"k","u","b","e","r","n","e","t","e","s">>,
    terraform    |-> <<"t","e","r","r","a","f","o","r","m">>,
    azure        |-> <<"a","z","u","r","e">>,
    api          |-> <<"a","p","i">>,
    react        |-> <<"r","e","a","c","t">>,
    ai           |-> <<"a","i">>,
    engineer     |-> <<"e","n","g","i","n","e","e","r">>,
    scalable     |-> <<"s","c","a","l","a","b","l","e">>,
    microservice |-> <<"m","i","c","r","o","s","e","r","v","i","c","e">>,
    built        |-> <<"b","u","i","l","t">>,
    deployed     |-> <<"d","e","p","l","o","y","e","d">>,
    services     |-> <<"s","e","r","v","i","c","e","s">>,
    service      |-> <<"s","e","r","v","i","c","e">>,
    cloud        |-> <<"c","l","o","u","d">>,
    looking      |-> <<"l","o","o","k","i","n","g">>,
    team         |-> <<"t","e","a","m">>,
    with         |-> <<"w","i","t","h">>,
    and          |-> <<"a","n","d">>,
    for          |-> <<"f","o","r">>,
    experience   |-> <<"e","x","p","e","r","i","e","n","c","e">>,
    a            |-> <<"a">> ]

Vocabulary == DOMAIN Spelling

\* the characters of a word; "" is the empty string
Spell(w) == IF w = "" THEN << >> ELSE Spelling[w]

\* the word with the given characters
WordOf(chars) == IF chars = << >> THEN ""
                 ELSE CHOOSE w \in Vocabulary : Spelling[w] = chars

\* str.lower() on a word
Lower(w) == WordOf([i \in 1..Len(Spell(w)) |-> LowerChar(Spell(w)[i])])

\* str.lower() on a text, word by word
LowerText(text) == [i \in 1..Len(text) |-> Lower(text[i])]

\* str.isalpha() on a word: non-empty and all characters alphabetic
IsAlpha(w) == /\ Spell(w) /= << >>
              /\ \A i \in 1..Len(Spell(w)) : IsAlphaChar(Spell(w)[i])

\* s occurs in t as a contiguous run of characters
IsSubSeq(s, t) ==
  \E off \in 0..(Len(t) - Len(s)) : \A i \in 1..Len(s) : t[off + i] = s[i]

\* Python's  kw in text  for a one-word string kw and a text of words
\* separated by single spaces: kw lies inside one of the words (or is "")
WordInText(kw, text) ==
  \/ Spell(kw) = << >>
  \/ \E i \in 1..Len(text) : IsSubSeq(Spell(kw), Spell(text[i]))

(***************************************************************************)
(* Keywords: a keyword is a sequence of one or two words, standing for     *)
(* the words joined by one space ("python", "cloud engineer")              *)
(***************************************************************************)
KwChars(kw) == IF Len(kw) = 1 THEN Spell(kw[1])
               ELSE Spell(kw[1]) \o <<" ">> \o Spell(kw[2])

\* string comparison  a < b  on character sequences
RECURSIVE StrLess(_, _)
StrLess(a, b) ==
  IF b = << >> THEN FALSE
  ELSE IF a = << >> THEN TRUE
  ELSE IF CharOrd(Head(a)) /= CharOrd(Head(b)) THEN CharOrd(Head(a)) < CharOrd(Head(b))
  ELSE StrLess(Tail(a), Tail(b))

KwLess(k1, k2) == StrLess(KwChars(k1), KwChars(k2))

\* seeded string hash: the seed is fixed for one run of the process
RECURSIVE HashChars(_, _)
HashChars(h, chars) ==
  IF chars = << >> THEN h
  ELSE HashChars((h * 31 + CharOrd(Head(chars))) % 1009, Tail(chars))

HashKw(seed, kw) == HashChars(seed * 101, KwChars(kw))

\* every string that can occur as a keyword: a lowercase word or two of them
KeywordUniverse ==
  LET words == {Lower(w) : w \in Vocabulary}
  IN  {<<w>> : w \in words \cup {""}} \cup {<<a, b>> : a \in words, b \in words}

\* the hash of every keyword under every seed, tabulated
HashOf == [seed \in 1..NumSeeds, kw \in KeywordUniverse |-> HashKw(seed, kw)]

\* kw1 comes before kw2 when a set holding both is iterated
HashBefore(seed, k1, k2) ==
  \/ HashOf[seed, k1] < HashOf[seed, k2]
  \/ HashOf[seed, k1] = HashOf[seed, k2] /\ KwLess(k1, k2)

\* list(set): the elements of S in the iteration order of this run
RECURSIVE SetToList(_, _)
SetToList(seed, S) ==
  IF S = {} THEN << >>
  ELSE LET first == CHOOSE k \in S : \A o \in S \ {k} : HashBefore(seed, k, o)
       IN  <<first>> \o SetToList(seed, S \ {first})

\* the set of elements of a sequence
Range(seq) == {seq[i] : i \in 1..Len(seq)}

\* seq[:k + 1] for k >= 0: one element more than seq[:k]
PySliceThrough(seq, k) ==
  IF k >= 0 THEN SubSeq(seq, 1, IF k + 1 < Len(seq) THEN k + 1 ELSE Len(seq))
  ELSE SubSeq(seq, 1, IF Len(seq) + k > 0 THEN Len(seq) + k ELSE 0)

\* seq[:k] for k >= 0 and seq[:k] for negative k (drops the last -k)
PySlicePrefix(seq, k) ==
  IF k >= 0 THEN SubSeq(seq, 1, IF k < Len(seq) THEN k ELSE Len(seq))
  ELSE SubSeq(seq, 1, IF Len(seq) + k > 0 THEN Len(seq) + k ELSE 0)

(***************************************************************************)
(* Projects (latex_parser.py)                                              *)
(***************************************************************************)
\* ParsedProject: name is a text, tech_stack a list of words,
\* description_points a list of texts
ParsedProject(name, tech_stack, date_range, description_points) ==
  [ name |-> name, tech_stack |-> tech_stack, date_range |-> date_range,
    description_points |-> description_points ]

RECURSIVE Flatten(_)
Flatten(seqs) == IF seqs = << >> THEN << >> ELSE Head(seqs) \o Flatten(Tail(seqs))

\* ' '.join(self.description_points)
get_full_description(project) == Flatten(project.description_points)

\* the alternatives of tech_patterns in extract_keywords_from_project that
\* are words of the vocabulary
ProjectTechTerms ==
  {"python", "java", "javascript", "react", "azure", "docker", "kubernetes",
   "api", "ai"}

\* _clean_latex_text on one tech-stack item: the math group $$ has no
\* content, so that nothing is left of it; a word stays as it is
clean_latex_text(tech) == IF tech = "$$" THEN "" ELSE tech

\* one project block parsed: tech-stack items that are empty before the
\* cleaning and empty description items are dropped, the items kept are
\* cleaned
ParseBlock(p) ==
  LET kept == SelectSeq(p.tech_stack, LAMBDA t : t /= "")
  IN  ParsedProject(p.name,
                    [i \in 1..Len(kept) |-> clean_latex_text(kept[i])],
                    p.date_range,
                    SelectSeq(p.description_points, LAMBDA d : d /= << >>))

\* parse_projects_from_latex on the blocks of the given projects: a block
\* yields a project only if it has a name and at least one description point
RECURSIVE parse_projects_from_latex(_)
parse_projects_from_latex(blocks) ==
  IF blocks = << >> THEN << >>
  ELSE LET q == ParseBlock(Head(blocks))
       IN  (IF q.name /= << >> /\ q.description_points /= << >> THEN <<q>> ELSE << >>)
           \o parse_projects_from_latex(Tail(blocks))

\* extract_keywords_from_project: the set of lowercased tech-stack items and
\* technical terms found in the description, listed in set-iteration order
ProjectKeywordSet(project) ==
  {<<Lower(project.tech_stack[i])>> : i \in 1..Len(project.tech_stack)}
  \cup {<<w>> : w \in Range(LowerText(get_full_description(project))) \cap ProjectTechTerms}

extract_keywords_from_project(seed, project) ==
  SetToList(seed, ProjectKeywordSet(project))

(***************************************************************************)
(* Inputs                                                                  *)
(***************************************************************************)
\* the project records a caller can select; ProjD has no description point
\* and ProjE no name, so neither survives parse_projects_from_latex.  The
\* second tech-stack item of ProjC is what the parser makes of \emph{java, $$}
ProjA == ParsedProject(<<"cloud", "api">>, <<"Python", "Docker">>, "2024",
           << <<"built", "a", "scalable", "python", "microservice", "deployed",
                "with", "docker">> >>)
ProjB == ParsedProject(<<"react", "services">>, <<"javascript", "react", "azure">>, "2023",
           << <<"built", "react", "services">>, << >>, <<"deployed", "azure", "api">> >>)
ProjC == ParsedProject(<<"java", "engineer">>, <<"java", "">>, "2022",
           << <<"java", "api", "for", "team">> >>)
ProjD == ParsedProject(<<"looking">>, <<"terraform">>, "2021", << >>)
ProjE == ParsedProject(<< >>, <<"azure">>, "2020", << <<"cloud">> >>)
ProjF == ParsedProject(<<"kubernetes", "team">>, <<"kubernetes">>, "2019",
           << <<"deployed", "kubernetes", "cloud">> >>)

CatalogueSeq == <<ProjA, ProjB, ProjC, ProjD, ProjE, ProjF>>

Catalogue == Range(CatalogueSeq)

\* the catalogue entries at the positions S, in catalogue order or reversed
Selection(S, reversed) ==
  LET before(i) == {j \in S : IF reversed THEN j > i ELSE j < i}
      pos(n)    == CHOOSE i \in S : Cardinality(before(i)) = n - 1
  IN  [n \in 1..Cardinality(S) |-> CatalogueSeq[pos(n)]]

\* the lists of selected projects: at most MaxProjects catalogue entries
ProjectLists ==
  { Selection(S, reversed) :
      S \in {T \in SUBSET (1..Len(CatalogueSeq)) : Cardinality(T) <= MaxProjects},
      reversed \in BOOLEAN }

\* the project block of a LaTeX file from which the parser gets the record
LatexBlock(p) ==
  [p EXCEPT !.tech_stack = [i \in 1..Len(p.tech_stack) |->
                              IF p.tech_stack[i] = "" THEN "$$" ELSE p.tech_stack[i]]]

\* the LaTeX project sections a caller can submit
LatexLists == {[i \in 1..Len(l) |-> LatexBlock(l[i])] : l \in ProjectLists}

\* the lists of ParsedProject objects rank_projects_for_job can be handed:
\* what the parser makes of a LaTeX project section
ParsedLists == {parse_projects_from_latex(l) : l \in LatexLists}

\* what the parser makes of the LaTeX app.py rebuilds from selected records
ReparsedLists == {parse_projects_from_latex(l) : l \in ProjectLists}

\* the job descriptions a caller can submit
Jobs ==
  { << >>,
    <<"looking", "for", "a", "Python", "engineer", "with", "Docker", "and",
      "kubernetes", "experience">>,
    <<"java", "engineer">>,
    <<"looking", "for", "a", "cloud", "engineer", "with", "Python", "Docker",
      "kubernetes", "terraform", "javascript", "react", "java", "experience",
      "built", "scalable", "microservice", "services", "service", "deployed",
      "team", "azure", "api">>,
    <<"javascript", "react", "azure", "api", "services", "ai">>,
    <<"docker", "docker", "azure">>,
    <<"services", "for", "a", "team", "Python">>,
    <<"looking", "for", "a", "Python", "engineer", "with", "Docker", "and",
      "kubernetes", "experience", "cloud", "scalable", "terraform">> }

\* the entry points: rank_projects_for_job called directly,
\* analyze_resume_with_projects (app.py), analyze_resume_latex_only,
\* extract_keywords_from_text (utils.py) called directly
Handlers == {"rank", "app", "latex_only", "extract"}

\* every project object the parser can produce from the catalogue
ProjectUniverse ==
  {ParseBlock(p) : p \in Catalogue} \cup {ParseBlock(LatexBlock(p)) : p \in Catalogue}

\* extract_keywords_from_project tabulated over the seeds and projects
ProjectKeywordsOf ==
  [seed \in 1..NumSeeds, p \in ProjectUniverse |-> extract_keywords_from_project(seed, p)]

(***************************************************************************)
(* Scoring (latex_parser.py)                                               *)
(***************************************************************************)
Max(a, b) == IF a >= b THEN a ELSE b
Min(a, b) == IF a <= b THEN a ELSE b

\* round(num/den, 0) as Python rounds: to nearest, ties to even
RoundHalfEven(num, den) ==
  LET q == num \div den
      r == num % den
  IN  IF 2 * r < den THEN q
      ELSE IF 2 * r > den THEN q + 1
      ELSE IF q % 2 = 0 THEN q ELSE q + 1

\* number of project keywords that occur in the lowercased job description
KeywordMatches(keywords, job_desc_lower) ==
  Cardinality({i \in 1..Len(keywords) : WordInText(keywords[i][1], job_desc_lower)})

\* keyword_score = min(100, matches / max(len(keywords), 1) * 100)
\* as the fraction <<numerator, denominator>>
KeywordScore(matches, nkeywords) ==
  LET den == Max(nkeywords, 1)
  IN  IF 100 * matches > 100 * den THEN <<100, 1>> ELSE <<100 * matches, den>>

\* similarity_score = min(100, len(common_words) / max(len(job_words), 1) * 100)
SimilarityScore(ncommon, njob) ==
  LET den == Max(njob, 1)
  IN  IF 100 * ncommon > 100 * den THEN <<100, 1>> ELSE <<100 * ncommon, den>>

\* keyword_score + similarity_score, in tenths: the sum without the weights
OverallScoreUnweighted(ks, ss) ==
  RoundHalfEven(10 * (ks[1] * ss[2] + ss[1] * ks[2]), ks[2] * ss[2])

\* overall_score = keyword_score * 0.7 + similarity_score * 0.3, in tenths,
\* rounded to one decimal
OverallScore(ks, ss) ==
  RoundHalfEven(7 * ks[1] * ss[2] + 3 * ss[1] * ks[2], ks[2] * ss[2])

\* every project keyword, matched or not
MatchedKeywordsAll(project_keywords, job_desc_lower) == project_keywords

\* [kw for kw in project_keywords if kw in job_desc_lower]
MatchedKeywords(project_keywords, job_desc_lower) ==
  SelectSeq(project_keywords, LAMBDA kw : WordInText(kw[1], job_desc_lower))

score_project_for_job(seed, project, job_desc) ==
  LET job_desc_lower   == LowerText(job_desc)
      project_keywords == ProjectKeywordsOf[seed, project]
      project_text     == LowerText(project.name \o get_full_description(project))
      keyword_matches  == KeywordMatches(project_keywords, job_desc_lower)
      ks               == KeywordScore(keyword_matches, Len(project_keywords))
      job_words        == Range(job_desc_lower)
      project_words    == Range(project_text)
      common_words     == job_words \cap project_words
      ss               == SimilarityScore(Cardinality(common_words), Cardinality(job_words))
  IN  [ project_name     |-> project.name,
        overall_score    |-> OverallScore(ks, ss),
        keyword_score    |-> RoundHalfEven(10 * ks[1], ks[2]),
        similarity_score |-> RoundHalfEven(10 * ss[1], ss[2]),
        matched_keywords |-> MatchedKeywords(project_keywords, job_desc_lower),
        tech_stack       |-> project.tech_stack ]

\* an insertion that is not stable: the element goes in front of the
\* elements whose score equals its own
RECURSIVE InsertByScoreFirst(_, _)
InsertByScoreFirst(sorted, x) ==
  IF sorted = << >> THEN <<x>>
  ELSE IF Head(sorted).overall_score > x.overall_score
       THEN <<Head(sorted)>> \o InsertByScoreFirst(Tail(sorted), x)
       ELSE <<x>> \o sorted

\* list.sort(key=overall_score, reverse=True): one element inserted behind
\* every element whose score is at least its own
RECURSIVE InsertByScore(_, _)
InsertByScore(sorted, x) ==
  IF sorted = << >> THEN <<x>>
  ELSE IF Head(sorted).overall_score >= x.overall_score
       THEN <<Head(sorted)>> \o InsertByScore(Tail(sorted), x)
       ELSE <<x>> \o sorted

RECURSIVE SortByScoreDesc(_)
SortByScoreDesc(scored) ==
  IF scored = << >> THEN << >>
  ELSE InsertByScore(SortByScoreDesc(SubSeq(scored, 1, Len(scored) - 1)),
                     scored[Len(scored)])

\* score_project_for_job tabulated over the seeds, projects and jobs
ScoreOf ==
  [seed \in 1..NumSeeds, p \in ProjectUniverse, job \in Jobs |->
     score_project_for_job(seed, p, job)]

rank_projects_for_job(seed, projs, job_desc, k) ==
  LET scored_projects ==
        [i \in 1..Len(projs) |-> ScoreOf[seed, projs[i], job_desc]]
  IN  PySlicePrefix(SortByScoreDesc(scored_projects), k)

(***************************************************************************)
(* Keyword extraction (utils.py)                                           *)
(***************************************************************************)
\* stopwords.words('english') and domain_stopwords, as far as they are
\* words of the vocabulary
StopWords == {"with", "and", "for", "a", "experience", "team"}

\* the alternatives of tech_patterns in _extract_technical_keywords that are
\* words of the vocabulary
TextTechTerms ==
  {"python", "java", "javascript", "react", "azure", "docker", "kubernetes",
   "terraform", "api", "ai"}

\* WordNetLemmatizer().lemmatize(token): plural nouns lose their ending
Lemmatize(w) == IF w = "services" THEN "service" ELSE w

\* the keywords of seq without repetitions, in order of first occurrence
RECURSIVE Dedup(_)
Dedup(seq) ==
  IF seq = << >> THEN << >>
  ELSE LET front == Dedup(SubSeq(seq, 1, Len(seq) - 1))
           last  == seq[Len(seq)]
       IN  IF last \in Range(front) THEN front ELSE Append(front, last)

\* number of positions of seq that hold x
Count(seq, x) == Cardinality({i \in 1..Len(seq) : seq[i] = x})

\* stable sort of keywords by descending count: x goes behind every
\* keyword whose count is at least its own
RECURSIVE InsertByCount(_, _, _)
InsertByCount(sorted, x, cnt) ==
  IF sorted = << >> THEN <<x>>
  ELSE IF cnt[Head(sorted)] >= cnt[x]
       THEN <<Head(sorted)>> \o InsertByCount(Tail(sorted), x, cnt)
       ELSE <<x>> \o sorted

RECURSIVE SortByCountDesc(_, _)
SortByCountDesc(seq, cnt) ==
  IF seq = << >> THEN << >>
  ELSE InsertByCount(SortByCountDesc(SubSeq(seq, 1, Len(seq) - 1), cnt),
                     seq[Len(seq)], cnt)

\* sorted(S): the keywords of S in alphabetical order
RECURSIVE SortedKeywords(_)
SortedKeywords(S) ==
  IF S = {} THEN << >>
  ELSE LET first == CHOOSE k \in S : \A o \in S \ {k} : KwLess(k, o)
       IN  <<first>> \o SortedKeywords(S \ {first})

\* _extract_technical_keywords: list(set(matches)) of the technical terms
\* found in the lowercased text
extract_technical_keywords(seed, text) ==
  SetToList(seed, {<<w>> : w \in Range(LowerText(text)) \cap TextTechTerms})

\* _simple_keyword_extraction: words longer than 2 that are alphabetic,
\* most common first, ties in order of first occurrence
simple_keyword_extraction(text, max_keywords) ==
  LET words          == LowerText(text)
      filtered_words == SelectSeq(words, LAMBDA w : Len(Spell(w)) > 2 /\ IsAlpha(w))
      kws            == [i \in 1..Len(filtered_words) |-> <<filtered_words[i]>>]
      cnt            == [k \in Range(kws) |-> Count(kws, k)]
  IN  PySlicePrefix(SortByCountDesc(Dedup(kws), cnt), max_keywords)

\* the unigrams and bigrams of the document handed to TfidfVectorizer
Ngrams(tokens) ==
  [i \in 1..Len(tokens) |-> <<tokens[i]>>]
  \o [i \in 1..(Len(tokens) - 1) |-> <<tokens[i], tokens[i + 1]>>]

\* keyword_scores after the sort: the features in alphabetical order,
\* stably sorted by descending TF-IDF weight.  With a single document every
\* idf is 1, so the weight of a feature is its count over a common norm.
\* (Fewer than max_features = 2 * max_keywords features: none is cut.)
TfidfRanked(tokens) ==
  LET grams == Ngrams(tokens)
      cnt   == [k \in Range(grams) |-> Count(grams, k)]
  IN  SortByCountDesc(SortedKeywords(Range(grams)), cnt)

\* the loop over keyword_scores: append what is new, stop at max_keywords
RECURSIVE AddTfidf(_, _, _)
AddTfidf(result_keywords, keyword_scores, max_keywords) ==
  IF keyword_scores = << >> THEN result_keywords
  ELSE LET keyword == Head(keyword_scores)
           next    == IF keyword \notin Range(result_keywords)
                      THEN Append(result_keywords, keyword)
                      ELSE result_keywords
       IN  IF Len(next) >= max_keywords THEN next
           ELSE AddTfidf(next, Tail(keyword_scores), max_keywords)

\* the tokens of the text that are alphabetic, longer than 2 and no stop
\* word, lemmatized
LemmatizedTokens(text) ==
  LET tokens          == LowerText(text)
      filtered_tokens == SelectSeq(tokens,
                           LAMBDA t : IsAlpha(t) /\ Len(Spell(t)) > 2 /\ t \notin StopWords)
  IN  [i \in 1..Len(filtered_tokens) |-> Lemmatize(filtered_tokens[i])]

\* TfidfVectorizer refuses max_features = max_keywords * 2 unless it is a
\* positive integer
TfidfRaises(max_keywords) == max_keywords * 2 <= 0

\* the TF-IDF step is skipped below three tokens
TooFewTokensThree(lemmatized_tokens) == Len(lemmatized_tokens) < 3

\* if len(lemmatized_tokens) < 5: the TF-IDF step is skipped
TooFewTokens(lemmatized_tokens) == Len(lemmatized_tokens) < 5

\* an except branch that gives up with the empty list
ExceptBranchEmpty(text, max_keywords) == << >>

\* the except branch: the result of _simple_keyword_extraction
ExceptBranch(text, max_keywords) == simple_keyword_extraction(text, max_keywords)

\* extract_keywords_from_text; nltk is FALSE when the NLTK tokenizer,
\* stopword list or lemmatizer raises, which selects the except branch, as
\* does a TfidfVectorizer that raises
extract_keywords_from_text(seed, nltk, text, max_keywords) ==
  IF text = << >> THEN << >>
  ELSE IF ~nltk THEN ExceptBranch(text, max_keywords)
  ELSE
    LET lemmatized_tokens == LemmatizedTokens(text)
    IN  IF TooFewTokens(lemmatized_tokens)
        THEN [i \in 1..Len(lemmatized_tokens) |-> <<lemmatized_tokens[i]>>]
        ELSE IF TfidfRaises(max_keywords)
        THEN ExceptBranch(text, max_keywords)
        ELSE LET keyword_scores == TfidfRanked(lemmatized_tokens)
                 tech_keywords  == extract_technical_keywords(seed, text)
             IN  PySlicePrefix(AddTfidf(Dedup(tech_keywords), keyword_scores, max_keywords),
                               max_keywords)

\* default of max_keywords in extract_keywords_from_text
DefaultMaxKeywords == 25

\* TfidfVectorizer keeps max_features = max_keywords * 2 features; every
\* feature of the text is kept when there are no more than that
NoFeatureCut(text, max_keywords) ==
  \/ TooFewTokens(LemmatizedTokens(text))
  \/ TfidfRaises(max_keywords)
  \/ Cardinality(Range(Ngrams(LemmatizedTokens(text)))) <= max_keywords * 2

\* extract_keywords_from_text(job_description) tabulated over the seeds, the
\* state of NLTK and the jobs
JobKeywordsOf ==
  [seed \in 1..NumSeeds, ok \in BOOLEAN, job \in Jobs |->
     extract_keywords_from_text(seed, ok, job, DefaultMaxKeywords)]

\* the members of stop_words in llm_pipeline.extract_keywords_from_text that
\* are words of the vocabulary
PipelineStopWords == {"a", "and", "for", "with"}

\* extract_keywords_from_text of llm_pipeline.py, the one analyzer.py
\* imports: words longer than 3 outside stop_words, the 20 most common
\* first, ties in order of first occurrence
pipeline_extract_keywords_from_text(text) ==
  LET words    == LowerText(text)
      keywords == SelectSeq(words, LAMBDA w : Len(Spell(w)) > 3 /\ w \notin PipelineStopWords)
      kws      == [i \in 1..Len(keywords) |-> <<keywords[i]>>]
      cnt      == [k \in Range(kws) |-> Count(kws, k)]
  IN  PySlicePrefix(SortByCountDesc(Dedup(kws), cnt), 20)

PipelineKeywordsOf == [job \in Jobs |-> pipeline_extract_keywords_from_text(job)]

(***************************************************************************)
(* format_score (utils.py)                                                 *)
(* A score value is ScoreVal(kind, v, chars): kind "int" with value v,     *)
(* kind "float" with v tenths, kind "nan", kind "str" with the characters  *)
(* chars, or kind "other" (None, a list, a dict).                          *)
(***************************************************************************)
ScoreVal(kind, v, chars) == [kind |-> kind, v |-> v, chars |-> chars]

Digits == <<"0", "1", "2", "3", "4", "5", "6", "7", "8", "9">>

IsDigit(c) == \E i \in 1..10 : Digits[i] = c

DigitVal(c) == (CHOOSE i \in 1..10 : Digits[i] = c) - 1

\* int(x) for a float given in tenths: truncation toward zero
TruncTenths(t) == IF t >= 0 THEN t \div 10 ELSE -((-t) \div 10)

\* re.findall(r'\d+', s)[0] as an integer: the first maximal run of digits
RECURSIVE DigitRun(_, _)
DigitRun(chars, acc) ==
  IF chars = << >> \/ ~IsDigit(Head(chars)) THEN acc
  ELSE DigitRun(Tail(chars), acc * 10 + DigitVal(Head(chars)))

RECURSIVE FirstNumber(_)
FirstNumber(chars) ==
  IF chars = << >> THEN -1
  ELSE IF IsDigit(Head(chars)) THEN DigitRun(chars, 0)
  ELSE FirstNumber(Tail(chars))

\* no clamping: the number as it is
Unclamped(n) == n

\* max(0, min(100, n))
Clamp100(n) == Max(0, Min(100, n))

\* int(score) raises for a float that is nan or infinite
FormatScoreRaises(score) == score.kind = "nan"

format_score(score) ==
  IF score.kind = "int" THEN Clamp100(score.v)
  ELSE IF score.kind = "float" THEN Clamp100(TruncTenths(score.v))
  ELSE IF score.kind = "str" /\ FirstNumber(score.chars) >= 0
       THEN Clamp100(FirstNumber(score.chars))
  ELSE 0

(***************************************************************************)
(* The resume-quality scorer (llm_pipeline.py)                             *)
(* A resume analysis is [is_dict, empty, has_score, overall_score, error]: *)
(* empty for the dict {}, has_score when the key 'overall_score' is in it, *)
(* error when the key 'error' is in it.  is_dict is FALSE for a reply that *)
(* is valid JSON but no object (a bare number).                            *)
(***************************************************************************)
Analysis(empty, has_score, score, error) ==
  [ is_dict |-> TRUE, empty |-> empty, has_score |-> has_score,
    overall_score |-> score, error |-> error ]

\* resume_analysis = {}
NoAnalysis == Analysis(TRUE, FALSE, ScoreVal("other", 0, << >>), FALSE)

\* the dict analyze_resume returns from its except branch
FailedAnalysis == Analysis(FALSE, TRUE, ScoreVal("int", 0, << >>), TRUE)

\* the dict app.py puts in place when the call of analyze_resume itself raises
FallbackAnalysis == Analysis(FALSE, TRUE, ScoreVal("int", 75, << >>), FALSE)

\* a reply that json.loads turns into a number
BareNumber ==
  [ is_dict |-> FALSE, empty |-> FALSE, has_score |-> FALSE,
    overall_score |-> ScoreVal("other", 0, << >>), error |-> FALSE ]

\* the values an LLM reply can carry under 'overall_score'
ScoreValues ==
  { ScoreVal("int", -5, << >>), ScoreVal("int", 7, << >>), ScoreVal("int", 85, << >>),
    ScoreVal("int", 150, << >>),
    ScoreVal("float", 725, << >>),
    ScoreVal("nan", 0, << >>),
    ScoreVal("str", 0, <<"8", "5", "/", "1", "0", "0">>),
    ScoreVal("str", 0, <<"h", "i", "g", "h">>),
    ScoreVal("other", 0, << >>) }

\* what resume_analysis_chain.invoke does: it raises (connection error,
\* undecodable reply) or returns the parsed reply
ChainOutcomes ==
  { [raises |-> TRUE, reply |-> NoAnalysis] }
  \cup { [raises |-> FALSE, reply |-> NoAnalysis] }
  \cup { [raises |-> FALSE, reply |-> BareNumber] }
  \cup { [raises |-> FALSE, reply |-> Analysis(FALSE, FALSE, ScoreVal("other", 0, << >>), FALSE)] }
  \cup { [raises |-> FALSE, reply |-> Analysis(FALSE, TRUE, v, FALSE)] : v \in ScoreValues }

\* LLMPipeline.analyze_resume: the chain's dict, or on any exception a dict
\* with "error" and overall_score 0
analyze_resume(chain) == IF chain.raises THEN FailedAnalysis ELSE chain.reply

(***************************************************************************)
(* Composite score (app.py, analyzer.py)                                   *)
(***************************************************************************)
RECURSIVE SumSeq(_)
SumSeq(seq) == IF seq = << >> THEN 0 ELSE Head(seq) + SumSeq(Tail(seq))

\* int(sum(top_scores) / len(top_scores)) for scores in tenths.  (For every
\* list of scores the catalogue and the jobs give rise to, the
\* double-precision quotient truncates to the same integer as the exact one.)
ProjectAvg(top_scores) == SumSeq(top_scores) \div (10 * Len(top_scores))

\* the pairs <<project_avg, resume_score>> of 0..100 x 0..100 for which the
\* double-precision value of project_avg * 0.6 + resume_score * 0.4 lies just
\* below the whole number (6 * project_avg + 4 * resume_score) / 10
BlendShortfall ==
  { <<6, 1>>, <<12, 2>>, <<24, 4>>, <<31, 1>>, <<36, 1>>, <<41, 1>>, <<46, 1>>,
    <<48, 3>>, <<48, 8>>, <<51, 1>>, <<57, 2>>, <<57, 7>>, <<62, 2>>, <<62, 7>>,
    <<67, 2>>, <<67, 7>>, <<72, 2>>, <<72, 7>>, <<77, 2>>, <<77, 7>>, <<82, 2>>,
    <<82, 7>>, <<87, 2>>, <<87, 7>>, <<92, 2>>, <<92, 7>>, <<96, 1>>, <<96, 6>>,
    <<96, 11>>, <<96, 16>>, <<97, 2>>, <<97, 7>> }

\* int(project_avg * 0.6 + resume_score * 0.4)
BlendScore(avg, resume_score) ==
  IF <<avg, resume_score>> \in BlendShortfall
  THEN (6 * avg + 4 * resume_score) \div 10 - 1
  ELSE (6 * avg + 4 * resume_score) \div 10

\* the fixed default of the overall score
DefaultScore == 70

\* resume_analysis and 'overall_score' in resume_analysis, for a dict
HasResumeScore(analysis) == ~analysis.empty /\ analysis.has_score


(***************************************************************************)
(* PDF project parser (backend/app/services/pdf_parser.py)                 *)
(*                                                                         *)
(* A line is the sequence of its tokens after strip(): words, the token    *)
(* "*" standing for the bullet U+2022, the bar "|" and the comma ",".  A   *)
(* string of several lines is the non-empty sequence of its lines, the     *)
(* empty string being one empty line.                                      *)
(***************************************************************************)
\* the lines a projects PDF is made of here
PdfLines ==
  { << >>,
    <<"Projects">>,
    <<"Alpha", "|", "py", ",", "go">>,
    <<"Beta", "|", ",", "go", "|", "py">>,
    <<"|", "py">>,
    <<"*", "built", "api">>,
    <<"*", "ran", "|", "go">>,
    <<"*">>,
    <<"note">> }

\* line.lower() == 'projects'
IsProjectsHeading(line) == line \in {<<"Projects">>, <<"projects">>, <<"PROJECTS">>}

\* the index of the first token of line equal to tok, 0 if there is none
FirstIndex(line, tok) ==
  IF tok \in Range(line)
  THEN CHOOSE i \in 1..Len(line) : line[i] = tok /\ \A j \in 1..(i - 1) : line[j] /= tok
  ELSE 0

\* str.split(sep): the pieces of line between the separators
RECURSIVE SplitOn(_, _)
SplitOn(line, sep) ==
  IF FirstIndex(line, sep) = 0 THEN <<line>>
  ELSE <<SubSeq(line, 1, FirstIndex(line, sep) - 1)>>
         \o SplitOn(SubSeq(line, FirstIndex(line, sep) + 1, Len(line)), sep)

\* '\n'.join(lines) as a string of lines
JoinLines(lines) == IF lines = << >> THEN << << >> >> ELSE lines

\* the dict appended for a project
PdfProject(title, description, technologies) ==
  [ title |-> title, description |-> JoinLines(description), technologies |-> technologies ]

\* `if current_project`: a project is open and its title is not empty;
\* current_project is << >> for None and <<title>> otherwise
ProjectOpen(current_project) == current_project /= << >> /\ current_project[1] /= << >>

\* the loop of _extract_projects_from_text over the lines left to read
RECURSIVE ExtractLoop(_, _, _, _, _)
ExtractLoop(lines, found, current_project, current_description, current_technologies) ==
  IF lines = << >>
  THEN IF ProjectOpen(current_project)
       THEN Append(found, PdfProject(current_project[1], current_description,
                                     current_technologies))
       ELSE found
  ELSE
    LET line == Head(lines)
        rest == Tail(lines)
    IN  IF line = << >> \/ IsProjectsHeading(line)
        THEN ExtractLoop(rest, found, current_project, current_description,
                         current_technologies)
        ELSE IF "|" \in Range(line) /\ line[1] /= "*"
        THEN LET parts == SplitOn(line, "|")
                 saved == IF ProjectOpen(current_project)
                          THEN Append(found, PdfProject(current_project[1],
                                        current_description, current_technologies))
                          ELSE found
                 techs == SelectSeq(SplitOn(parts[2], ","), LAMBDA t : t /= << >>)
             IN  ExtractLoop(rest, saved, <<parts[1]>>, << >>, techs)
        ELSE IF line[1] = "*" /\ ProjectOpen(current_project)
        THEN ExtractLoop(rest, found, current_project,
                         Append(current_description, Tail(line)), current_technologies)
        ELSE ExtractLoop(rest, found, current_project, current_description,
                         current_technologies)

\* PDFParser._extract_projects_from_text
extract_projects_from_text(text) == ExtractLoop(text, << >>, << >>, << >>, << >>)

(***************************************************************************)
(* Backend API (backend/app/main.py, services/rag_service.py,              *)
(* services/analyzer.py)                                                   *)
(*                                                                         *)
(* A vector of the Pinecone index is a record with its namespace, its id   *)
(* <<resume_id, i>> for "<resume_id>_chunk_<i>" and its metadata.  A text  *)
(* is a sequence of lines.                                                 *)
(***************************************************************************)
\* the value of a header that was not sent
None == "<None>"

\* X-Workspace-ID as requests carry it
WorkspaceIds == {None, "", "w1", "w2"}

\* hash_workspace_id: "ws-" and 40 hex digits of the SHA-256 of the id
hash_workspace_id(workspace_id) ==
  IF workspace_id = "w1" THEN "ws-60c5590f72eef292f9545afc28bf63ca91d2016a"
  ELSE IF workspace_id = "w2" THEN "ws-06f8faea3b5f697691b6d063a07ba4ffaf1ece9a"
  ELSE "ws-e3b0c44298fc1c149afbf4c8996fb92427ae41e4"

\* a header check that never rejects
WorkspaceMissingNever(workspace_id) == FALSE

\* `if not workspace_id`: no header, or an empty one
WorkspaceMissing(workspace_id) == workspace_id \in {None, ""}

\* a provider check that lets every name through
ProviderAllowedAny(provider) == TRUE

\* provider in ["groq", "ollama"]
ProviderAllowed(provider) == provider \in {"groq", "ollama"}

\* os.getenv("LLM_PROVIDER", "groq")
getenv_LLM_PROVIDER(env) == IF env = None THEN "groq" ELSE env

\* user_id = "default_user"
user_id == "default_user"

\* top_k of the queries of get_projects, delete_project and analyze_resume
top_k_get_projects == 50
top_k_delete_project == 100
top_k_analyze == 50

\* batch_size of store_resume
batch_size == 100

\* the uploaded files: unreadable, without a project, with one project and
\* with two
PdfCorrupt == [readable |-> FALSE, text |-> << >>]
PdfAlpha == [readable |-> TRUE, text |-> << <<"Alpha", "|", "py", ",", "go">>, <<"*", "built", "api">> >>]
PdfFiles ==
  { PdfCorrupt,
    [readable |-> TRUE, text |-> << <<"note">> >>],
    PdfAlpha,
    [readable |-> TRUE, text |-> << <<"Beta", "|", ",", "go", "|", "py">>,
                                    <<"Alpha", "|", "py", ",", "go">> >>] }

\* the files of the large uploads: one project, and as many projects as
\* get_projects asks chunks for
BulkFiles ==
  { PdfAlpha,
    [readable |-> TRUE, text |-> [i \in 1..top_k_get_projects |-> <<"Beta", "|", "py">>]] }

\* the resume files of analyze_resume
ResumeFiles == { PdfCorrupt, [readable |-> TRUE, text |-> << <<"python", "engineer">> >>] }

\* RAGService.get_resume_id: 16 hex digits of the MD5 of the text
get_resume_id(resume_text) == "0ae94d03ba289c1a"

\* ', '.join(technologies)
RECURSIVE JoinComma(_)
JoinComma(items) ==
  IF items = << >> THEN << >>
  ELSE IF Len(items) = 1 THEN items[1]
  ELSE items[1] \o <<",">> \o JoinComma(Tail(items))

\* the text of projects_text for one project
ProjectText(p) ==
  << <<"Project:">> \o p.title, <<"Technologies:">> \o JoinComma(p.technologies) >>
    \o << <<"Description:">> \o p.description[1] >> \o Tail(p.description)

\* "\n\n".join of the project texts
RECURSIVE ProjectsText(_)
ProjectsText(projs) ==
  IF projs = << >> THEN << << >> >>
  ELSE IF Len(projs) = 1 THEN ProjectText(projs[1])
  ELSE ProjectText(projs[1]) \o << << >> >> \o ProjectsText(Tail(projs))

\* parse_projects and the projects_text of upload_projects for each readable
\* file, computed once
ParsedProjects ==
  [file \in {f \in PdfFiles \cup BulkFiles : f.readable} |-> extract_projects_from_text(file.text)]
UploadedText ==
  [file \in {f \in PdfFiles \cup BulkFiles : f.readable} |-> ProjectsText(ParsedProjects[file])]

\* RAGService._chunk_resume: the full text, then one chunk per project
chunk_resume(resume_text, projs) ==
  << [type |-> "full_resume", text |-> resume_text, project_title |-> << >>] >>
    \o [i \in 1..Len(projs) |->
          [ type          |-> "project",
            text          |-> <<projs[i].title>> \o projs[i].description
                                \o << <<"Technologies:">> \o JoinComma(projs[i].technologies) >>,
            project_title |-> projs[i].title ]]

\* the vectors store_resume builds, ids "<user>_chunk_<i>" from 0
Vectors(user, resume_text, projs, namespace) ==
  LET chunks == chunk_resume(resume_text, projs)
  IN  [i \in 1..Len(chunks) |->
         [ namespace     |-> namespace,
           id            |-> <<user, i - 1>>,
           resume_id     |-> user,
           chunk_type    |-> chunks[i].type,
           text          |-> chunks[i].text,
           project_title |-> chunks[i].project_title ]]

\* index.upsert: a vector replaces the one with its id in its namespace
Upsert(store, batch) ==
  {v \in store : \A i \in 1..Len(batch) :
                   ~(v.namespace = batch[i].namespace /\ v.id = batch[i].id)}
    \cup Range(batch)

\* the batches of store_resume that are written when the batch numbered
\* failing raises (0: none does): the batches before it
RECURSIVE UpsertBatches(_, _, _, _)
UpsertBatches(store, vectors, from, failing) ==
  IF from > Len(vectors) \/ failing = 1 THEN store
  ELSE UpsertBatches(
         Upsert(store, SubSeq(vectors, from,
                              IF from + batch_size - 1 < Len(vectors)
                              THEN from + batch_size - 1 ELSE Len(vectors))),
         vectors, from + batch_size, failing - 1)

\* RAGService.store_resume; without a namespace it is "default"
store_resume(store, user, resume_text, projs, namespace, failing) ==
  UpsertBatches(store, Vectors(user, resume_text, projs, namespace), 1, failing)

\* what decides the place of a chunk in a search: its title, or the mark of
\* the full text
Kinds == { <<"full_resume">>, <<"Alpha">>, <<"Beta">> }
KindOf(v) == IF v.chunk_type = "full_resume" THEN <<"full_resume">> ELSE v.project_title

\* the orders in which Pinecone may score the kinds against a query, and
\* the two orders of chunks that score alike
Orders ==
  { o \in [1..Cardinality(Kinds) -> Kinds] : \A k \in Kinds : \E i \in DOMAIN o : o[i] = k }

\* the second components of a set of pairs <<key, v>> by ascending key, the
\* keys being distinct numbers
SortedByKey(pairs) ==
  LET keys  == {p[1] : p \in pairs}
      place == [k \in keys |-> Cardinality({j \in keys : j <= k})]
  IN  [i \in 1..Cardinality(pairs) |-> (CHOOSE p \in pairs : place[p[1]] = i)[2]]

\* RAGService.semantic_search: the top_k best matches of the namespace
\* whose resume_id is the user's, best first
semantic_search(store, user, k, namespace, order, ties_descending) ==
  LET matches == {v \in store : v.namespace = namespace /\ v.resume_id = user}
      rank(v) == CHOOSE i \in DOMAIN order : order[i] = KindOf(v)
      sorted  == SortedByKey(
                   { << rank(v) * 1000 + (IF ties_descending THEN 999 - v.id[2] ELSE v.id[2]),
                        v >> : v \in matches })
  IN  [i \in 1..(IF Len(sorted) < k THEN Len(sorted) ELSE k) |->
         [ text          |-> sorted[i].text,
           chunk_type    |-> sorted[i].chunk_type,
           project_title |-> sorted[i].project_title ]]

\* [r for r in results if r["chunk_type"] == "project"]
ProjectChunks(results) == SelectSeq(results, LAMBDA r : r.chunk_type = "project")

\* results.index(result): the place of the first equal result, from 0
IndexOf(results, r) ==
  (CHOOSE i \in 1..Len(results) : results[i] = r /\ \A j \in 1..(i - 1) : results[j] /= r) - 1

\* the ids delete_project deletes
DeletedIds(results, project_title) ==
  { <<user_id, IndexOf(results, results[i])>> :
      i \in {j \in 1..Len(results) : results[j].project_title = project_title} }

\* the Project objects analyze_resume builds from the stored texts
StoredProject(r) ==
  LET descs == SelectSeq(r.text, LAMBDA l : l /= << >> /\ l[1] = "Description:")
      techs == SelectSeq(r.text, LAMBDA l : l /= << >> /\ l[1] = "Technologies:")
  IN  [ title        |-> r.project_title,
        description  |-> IF descs = << >> THEN << << >> >>
                         ELSE << Tail(descs[Len(descs)]) >>,
        technologies |-> IF techs = << >> THEN << >>
                         ELSE SplitOn(Tail(techs[Len(techs)]), ",") ]
(***************************************************************************)
(* State                                                                   *)
(***************************************************************************)
VARIABLES
  handler,                  \* the entry point of this call
  pc,                       \* position inside the handler
  hash_seed,                \* string-hash seed of the running process
  nltk_ok,                  \* FALSE: the NLTK steps raise in this process
  llm_pipeline,             \* st.session_state.llm_pipeline: "present" or "absent" (None)
  job_description,          \* input text
  projects,                 \* input projects (selected_projects / projects_latex)
  max_kw,                   \* max_keywords of extract_keywords_from_text
  top_k,                    \* top_k handed to rank_projects_for_job
  parsed_projects,          \* result of parse_projects_from_latex
  ranked_projects,          \* result of rank_projects_for_job
  resume_analysis,          \* reply of the resume-quality scorer
  llm_failed,               \* the scorer was called and failed in this call
  project_recommendations,  \* recommendations derived from ranked_projects
  job_keywords,             \* keywords extracted from job_description
  missing_keywords,         \* list of [keyword, category, importance]
  project_avg,              \* truncated mean of the top scores (-1: not computed)
  overall_score,            \* composite score of the result (-1: none)
  result,                   \* "pending", "ok", "none", "error"
  pdf_text,                 \* the text handed to _extract_projects_from_text
  pdf_projects,             \* its result
  rag_index,                \* rag_service.index: the vectors of the Pinecone index
  LLM_PROVIDER,             \* os.environ["LLM_PROVIDER"], None when unset
  analyzer,                 \* provider of the global ResumeAnalyzer of main.py
  request,                  \* the request served last
  response,                 \* its response
  calls,                    \* PDF and vector-store calls made while serving it
  served,                   \* number of requests served
  latex_content,            \* the content handed to upload_projects_latex last
  projects_index,           \* vector_store.projects_index: the stored project vectors
  upload_result,            \* the dict upload_projects_latex returned
  upload_calls,             \* the vector-store methods that call ran
  uploads,                  \* number of calls of upload_projects_latex
  data_dir,                 \* the files of RESUMES_DIR or PROJECTS_DIR
  cached_files,             \* cached_resumes or cached_projects of the DataManager
  scan_results,             \* the counters the last scan returned
  scan_outcomes,            \* what the last scan did with each file
  files_changed,            \* a file was written or removed since the last scan
  scans,                    \* number of scans run
  edits                     \* number of changes made to the directory

\* the state of the scoring and analysis calls
analysis == << hash_seed, nltk_ok, llm_pipeline, job_description, projects,
               max_kw, top_k, parsed_projects, ranked_projects, resume_analysis, llm_failed,
               project_recommendations, job_keywords, missing_keywords, project_avg,
               overall_score, result >>

\* the state of the PDF parser and of the backend API
pdf == << pdf_text, pdf_projects >>
api == << rag_index, LLM_PROVIDER, analyzer, request, response, calls, served >>
upload == << latex_content, projects_index, upload_result, upload_calls, uploads >>
scan == << data_dir, cached_files, scan_results, scan_outcomes, files_changed, scans, edits >>
stores == << upload, scan >>
services == << pdf, api, stores >>

vars == << handler, pc, analysis, services >>

inputs == << handler, hash_seed, nltk_ok, llm_pipeline, job_description, projects,
              max_kw >>

\* a subsystem that is not the one running
NoRequest  == [endpoint |-> "", workspace_id |-> "", project_title |-> << >>, provider |-> ""]
NoResponse == [status_code |-> 0, projects |-> << >>, provider |-> "", count |-> 0]
AnalysisIdle ==
  /\ hash_seed = 1 /\ nltk_ok = TRUE /\ llm_pipeline = "present"
  /\ job_description = << >> /\ projects = << >> /\ max_kw = DefaultMaxKeywords
  /\ top_k = 0 /\ parsed_projects = << >> /\ ranked_projects = << >>
  /\ resume_analysis = NoAnalysis /\ llm_failed = FALSE
  /\ project_recommendations = << >> /\ job_keywords = << >>
  /\ missing_keywords = << >> /\ project_avg = -1 /\ overall_score = -1
  /\ result = "pending"
PdfIdle == pdf_text = << >> /\ pdf_projects = << >>
ApiIdle ==
  /\ rag_index = {} /\ LLM_PROVIDER = None /\ analyzer = "groq"
  /\ request = NoRequest /\ response = NoResponse /\ calls = << >> /\ served = 0
NoUpload == [status |-> "", projects_count |-> 0, total_chunks |-> 0]
NoScan   == [processed |-> 0, cached |-> 0, errors |-> 0, total |-> 0]
UploadIdle ==
  /\ latex_content = << >> /\ projects_index = {} /\ upload_result = NoUpload
  /\ upload_calls = << >> /\ uploads = 0
ScanIdle ==
  /\ data_dir = {} /\ cached_files = {} /\ scan_results = NoScan
  /\ scan_outcomes = {} /\ files_changed = FALSE /\ scans = 0 /\ edits = 0
StoresIdle == UploadIdle /\ ScanIdle
ServicesIdle == PdfIdle /\ ApiIdle /\ StoresIdle

\* a call of one entry point with its arguments.  Only app.py reads
\* nltk_ok (through utils.extract_keywords_from_text) and can run without a
\* pipeline object; ResumeAnalyzer builds its pipeline in __init__.  The
\* page of app.py starts an analysis only for a non-empty job description
\* and a non-empty selection (lines 359-363); the selected project dicts
\* are read from the cache file projects.json as they are.  A direct call
\* of extract_keywords_from_text gets a max_keywords for which the
\* vectorizer keeps every feature.
Init ==
  /\ handler \in Handlers
  /\ pc = "start"
  /\ hash_seed \in 1..NumSeeds
  /\ nltk_ok \in (IF handler \in {"app", "extract"} THEN BOOLEAN ELSE {TRUE})
  /\ llm_pipeline \in (IF handler = "app" THEN {"present", "absent"} ELSE {"present"})
  /\ job_description \in (IF handler = "app" THEN Jobs \ {<< >>} ELSE Jobs)
  /\ projects \in (IF handler = "rank" THEN ParsedLists
                   ELSE IF handler = "app" THEN ProjectLists \ {<< >>}
                   ELSE IF handler = "latex_only" THEN LatexLists
                   ELSE {<< >>})
  /\ max_kw \in (IF handler = "extract"
                 THEN {m \in 0..MaxKeywordsTried \cup {DefaultMaxKeywords} :
                         NoFeatureCut(job_description, m)}
                 ELSE {DefaultMaxKeywords})
  /\ top_k \in (IF handler = "rank" THEN -1..MaxTopK ELSE {0})
  /\ parsed_projects = << >>
  /\ ranked_projects = << >>
  /\ resume_analysis = NoAnalysis
  /\ llm_failed = FALSE
  /\ project_recommendations = << >>
  /\ job_keywords = << >>
  /\ missing_keywords = << >>
  /\ project_avg = -1
  /\ overall_score = -1
  /\ result = "pending"
  /\ ServicesIdle

(***************************************************************************)
(* rank_projects_for_job called on its own                                 *)
(***************************************************************************)
\* a ranking that sorts the list it was handed
ProjectsSortedInPlace(seed, projs, job_desc) ==
  LET ranked == rank_projects_for_job(seed, projs, job_desc, Len(projs))
  IN  [i \in 1..Len(projs) |->
         CHOOSE p \in Range(projs) : p.name = ranked[i].project_name]

\* the list handed to rank_projects_for_job as the call leaves it: the
\* scores go into the new list scored_projects, which alone is sorted;
\* the projects are only read
ProjectsAfterRank(seed, projs, job_desc) == projs

\* parsed_projects keeps the list as it was handed in
RankCall ==
  /\ handler = "rank" /\ pc = "start"
  /\ parsed_projects' = projects
  /\ ranked_projects' = rank_projects_for_job(hash_seed, projects, job_description, top_k)
  /\ projects' = ProjectsAfterRank(hash_seed, projects, job_description)
  /\ result' = "ok"
  /\ pc' = "done"
  /\ UNCHANGED services
  /\ UNCHANGED << handler, hash_seed, nltk_ok, llm_pipeline, job_description, max_kw,
                  top_k, resume_analysis, llm_failed, project_recommendations,
                  job_keywords, missing_keywords, project_avg, overall_score >>

(***************************************************************************)
(* extract_keywords_from_text called on its own                            *)
(***************************************************************************)
\* every failure inside the try block ends in the fallback, which does not
\* raise for a string
ExtractCall ==
  /\ handler = "extract" /\ pc = "start"
  /\ job_keywords' = extract_keywords_from_text(hash_seed, nltk_ok, job_description, max_kw)
  /\ result' = "ok"
  /\ pc' = "done"
  /\ UNCHANGED services
  /\ UNCHANGED << inputs, top_k, parsed_projects, ranked_projects, resume_analysis,
                  llm_failed, project_recommendations, missing_keywords, project_avg,
                  overall_score >>

(***************************************************************************)
(* Steps shared by the two analyses                                        *)
(***************************************************************************)
\* the entry of project_recommendations for one ranked project
Recommendation(ranked_project) ==
  [ project_name    |-> ranked_project.project_name,
    relevance_score |-> ranked_project.overall_score,
    key_skills      |-> ranked_project.matched_keywords,
    tech_stack      |-> ranked_project.tech_stack ]

\* project_keywords: extract_keywords_from_project of every parsed project,
\* one list after the other
RECURSIVE AllProjectKeywords(_, _)
AllProjectKeywords(seed, parsed) ==
  IF parsed = << >> THEN << >>
  ELSE ProjectKeywordsOf[seed, Head(parsed)]
       \o AllProjectKeywords(seed, Tail(parsed))

\* importance from the first three job keywords instead of five
MissingKeywordTopThree(kw, keywords) ==
  [ keyword    |-> kw,
    category   |-> "Technical",
    importance |-> IF kw \in Range(PySlicePrefix(keywords, 3)) THEN "high" ELSE "medium" ]

\* the dict built for one missing keyword
MissingKeyword(kw, keywords) ==
  [ keyword    |-> kw,
    category   |-> "Technical",
    importance |-> IF kw \in Range(PySlicePrefix(keywords, 5)) THEN "high" ELSE "medium" ]

\* list(set(job_keywords))[:10]: nothing is taken away
AppMissingAll(seed, keywords, project_keywords) ==
  PySlicePrefix(SetToList(seed, Range(keywords)), 10)

\* app.py: list(set(job_keywords) - set(project_keywords))[:10]
AppMissing(seed, keywords, project_keywords) ==
  PySlicePrefix(SetToList(seed, Range(keywords) \ Range(project_keywords)), 10)

\* analyzer.py: [kw for kw in job_keywords if kw not in project_keywords][:15]
LatexMissing(keywords, project_keywords) ==
  PySlicePrefix(SelectSeq(keywords, LAMBDA kw : kw \notin Range(project_keywords)), 15)

\* AppMissing tabulated over the seeds, the state of NLTK, the jobs and the
\* parsed project lists
AppMissingOf ==
  [seed \in 1..NumSeeds, ok \in BOOLEAN, job \in Jobs, parsed \in ReparsedLists |->
     AppMissing(seed, JobKeywordsOf[seed, ok, job], AllProjectKeywords(seed, parsed))]

\* the scores of ranked_projects[:3], in tenths
TopScores(ranked) ==
  LET top == PySlicePrefix(ranked, 3) IN [i \in 1..Len(top) |-> top[i].overall_score]

(***************************************************************************)
(* analyze_resume_with_projects (app.py)                                   *)
(***************************************************************************)
\* lines 81-103: rebuild the LaTeX of the selected projects, parse it back,
\* give up with None when nothing parses
AppParse ==
  /\ handler = "app" /\ pc = "start"
  /\ parsed_projects' = parse_projects_from_latex(projects)
  /\ IF parsed_projects' = << >>
     THEN result' = "none" /\ pc' = "done"
     ELSE result' = result /\ pc' = "rank"
  /\ UNCHANGED services
  /\ UNCHANGED << inputs, top_k, ranked_projects, resume_analysis, llm_failed,
                  project_recommendations, job_keywords, missing_keywords,
                  project_avg, overall_score >>

\* lines 105-106: rank every parsed project
AppRank ==
  /\ handler = "app" /\ pc = "rank"
  /\ top_k' = Len(parsed_projects)
  /\ ranked_projects' = rank_projects_for_job(hash_seed, parsed_projects,
                                              job_description, Len(parsed_projects))
  /\ parsed_projects' = ProjectsAfterRank(hash_seed, parsed_projects, job_description)
  /\ pc' = "resume"
  /\ UNCHANGED services
  /\ UNCHANGED << inputs, resume_analysis, llm_failed,
                  project_recommendations, job_keywords, missing_keywords,
                  project_avg, overall_score, result >>

\* lines 108-122: the scorer is asked only for a resume text of more than
\* 100 characters.  analyze_resume turns every failure of its chain into a
\* dict; the call itself raises only when there is no pipeline object, and
\* then the fixed dict of the except branch is used.
AppAnalyzeResume ==
  /\ handler = "app" /\ pc = "resume"
  /\ \/ /\ resume_analysis' = NoAnalysis
        /\ llm_failed' = FALSE
     \/ /\ llm_pipeline = "absent"
        /\ resume_analysis' = FallbackAnalysis
        /\ llm_failed' = TRUE
     \/ /\ llm_pipeline = "present"
        /\ \E chain \in ChainOutcomes :
             /\ resume_analysis' = analyze_resume(chain)
             /\ llm_failed' = chain.raises
  /\ pc' = "keywords"
  /\ UNCHANGED services
  /\ UNCHANGED << inputs, top_k, parsed_projects, ranked_projects,
                  project_recommendations, job_keywords, missing_keywords,
                  project_avg, overall_score, result >>

\* lines 124-151: recommendations for all ranked projects, missing keywords
AppKeywords ==
  /\ handler = "app" /\ pc = "keywords"
  /\ project_recommendations' =
       [i \in 1..Len(ranked_projects) |-> Recommendation(ranked_projects[i])]
  /\ job_keywords' = JobKeywordsOf[hash_seed, nltk_ok, job_description]
  /\ LET missing == AppMissingOf[hash_seed, nltk_ok, job_description, parsed_projects]
     IN  missing_keywords' =
           [i \in 1..Len(missing) |-> MissingKeyword(missing[i], job_keywords')]
  /\ pc' = "phrasing"
  /\ UNCHANGED services
  /\ UNCHANGED << inputs, top_k, parsed_projects, ranked_projects, resume_analysis,
                  llm_failed, project_avg, overall_score, result >>

\* lines 153-199: the phrasing call.  improve_project_phrasing catches its
\* own failures; the block raises only when there is no pipeline object,
\* and its except branch then uses the undefined name logger, so that the
\* analysis returns None.
AppPhrasing ==
  /\ handler = "app" /\ pc = "phrasing"
  /\ IF ranked_projects /= << >> /\ llm_pipeline = "absent"
     THEN result' = "none" /\ pc' = "done"
     ELSE result' = result /\ pc' = "score"
  /\ UNCHANGED services
  /\ UNCHANGED << inputs, top_k, parsed_projects, ranked_projects, resume_analysis,
                  llm_failed, project_recommendations, job_keywords, missing_keywords,
                  project_avg, overall_score >>

\* lines 201-231: the overall score and the returned dict.  The test
\* 'overall_score' in resume_analysis raises for a reply that is no dict,
\* format_score raises for nan; either way the analysis returns None.
AppScore ==
  /\ handler = "app" /\ pc = "score"
  /\ project_avg' = IF ranked_projects /= << >>
                    THEN ProjectAvg(TopScores(ranked_projects))
                    ELSE project_avg
  /\ IF ~resume_analysis.is_dict
     THEN overall_score' = overall_score /\ result' = "none"
     ELSE IF ~HasResumeScore(resume_analysis)
     THEN /\ overall_score' = IF ranked_projects /= << >> THEN project_avg'
                              ELSE DefaultScore
          /\ result' = "ok"
     ELSE IF FormatScoreRaises(resume_analysis.overall_score)
     THEN overall_score' = overall_score /\ result' = "none"
     ELSE /\ overall_score' =
               IF ranked_projects /= << >>
               THEN BlendScore(project_avg', format_score(resume_analysis.overall_score))
               ELSE format_score(resume_analysis.overall_score)
          /\ result' = "ok"
  /\ pc' = "done"
  /\ UNCHANGED services
  /\ UNCHANGED << inputs, top_k, parsed_projects, ranked_projects, resume_analysis,
                  llm_failed, project_recommendations, job_keywords, missing_keywords >>

(***************************************************************************)
(* ResumeAnalyzer.analyze_resume_latex_only (analyzer.py)                  *)
(***************************************************************************)
\* lines 189-215: the scorer is asked only for resume content of more than
\* 50 characters
LatexAnalyzeResume ==
  /\ handler = "latex_only" /\ pc = "start"
  /\ \/ /\ resume_analysis' = NoAnalysis
        /\ llm_failed' = FALSE
     \/ \E chain \in ChainOutcomes :
          /\ resume_analysis' = analyze_resume(chain)
          /\ llm_failed' = chain.raises
  /\ pc' = "projects"
  /\ UNCHANGED services
  /\ UNCHANGED << inputs, top_k, parsed_projects, ranked_projects,
                  project_recommendations, job_keywords, missing_keywords,
                  project_avg, overall_score, result >>

\* lines 217-274: parse, rank with top_k = 8, recommend what scores above 50
LatexProjects ==
  /\ handler = "latex_only" /\ pc = "projects"
  /\ LET parsed == parse_projects_from_latex(projects)
     IN  /\ ranked_projects' =
               IF parsed /= << >>
               THEN rank_projects_for_job(hash_seed, parsed, job_description, 8)
               ELSE << >>
         /\ parsed_projects' = ProjectsAfterRank(hash_seed, parsed, job_description)
  /\ top_k' = 8
  /\ LET good == SelectSeq(ranked_projects', LAMBDA r : r.overall_score > 500)
     IN  project_recommendations' = [i \in 1..Len(good) |-> Recommendation(good[i])]
  /\ pc' = "keywords"
  /\ UNCHANGED services
  /\ UNCHANGED << inputs, resume_analysis, llm_failed, job_keywords, missing_keywords,
                  project_avg, overall_score, result >>

\* lines 276-300: missing keywords in job-keyword order; the keywords of the
\* job come from llm_pipeline.extract_keywords_from_text
LatexKeywords ==
  /\ handler = "latex_only" /\ pc = "keywords"
  /\ job_keywords' = PipelineKeywordsOf[job_description]
  /\ LET missing == LatexMissing(job_keywords',
                                 AllProjectKeywords(hash_seed, parsed_projects))
     IN  missing_keywords' =
           [i \in 1..Len(missing) |-> MissingKeyword(missing[i], job_keywords')]
  /\ pc' = "score"
  /\ UNCHANGED services
  /\ UNCHANGED << inputs, top_k, parsed_projects, ranked_projects, resume_analysis,
                  llm_failed, project_recommendations, project_avg, overall_score,
                  result >>

\* lines 302-351: the default, or the truncated mean of the first three
\* recommendations; resume_analysis receives the score when it has none.
\* For a reply that is no dict that test raises, and the except branch
\* returns the error result with overall_score 0.
LatexScore ==
  /\ handler = "latex_only" /\ pc = "score"
  /\ LET top == PySlicePrefix(project_recommendations, 3)
         avg == ProjectAvg([i \in 1..Len(top) |-> top[i].relevance_score])
     IN  project_avg' = IF project_recommendations /= << >> THEN avg ELSE project_avg
  /\ IF resume_analysis.is_dict
     THEN /\ overall_score' = IF project_recommendations /= << >> THEN project_avg'
                              ELSE DefaultScore
          /\ resume_analysis' =
               IF resume_analysis.has_score THEN resume_analysis
               ELSE Analysis(FALSE, TRUE, ScoreVal("int", overall_score', << >>),
                             resume_analysis.error)
          /\ UNCHANGED << project_recommendations, missing_keywords >>
          /\ result' = "ok"
     ELSE /\ overall_score' = 0
          /\ resume_analysis' = Analysis(FALSE, FALSE, ScoreVal("other", 0, << >>), TRUE)
          /\ project_recommendations' = << >>
          /\ missing_keywords' = << >>
          /\ result' = "error"
  /\ pc' = "done"
  /\ UNCHANGED services
  /\ UNCHANGED << inputs, top_k, parsed_projects, ranked_projects, llm_failed,
                  job_keywords >>

(***************************************************************************)
(* Specification                                                           *)
(***************************************************************************)
Next ==
  \/ RankCall
  \/ ExtractCall
  \/ AppParse
  \/ AppRank
  \/ AppAnalyzeResume
  \/ AppKeywords
  \/ AppPhrasing
  \/ AppScore
  \/ LatexAnalyzeResume
  \/ LatexProjects
  \/ LatexKeywords
  \/ LatexScore

Spec == Init /\ [][Next]_vars

TypeOK ==
  /\ handler \in Handlers
  /\ pc \in {"start", "rank", "resume", "projects", "keywords", "phrasing", "score", "done"}
  /\ result \in {"pending", "ok", "none", "error"}
  /\ overall_score \in -1..100
  /\ project_avg \in -1..100
  /\ llm_failed \in BOOLEAN
  /\ max_kw \in 0..MaxKeywordsTried \cup {DefaultMaxKeywords}

(***************************************************************************)
(* Properties                                                              *)
(***************************************************************************)

\* C1: when analyze_resume has failed, the overall score returned by
\* analyze_resume_with_projects is the one of the branch without a resume
\* score: the project average alone, or the default when nothing is ranked;
\* the failure is never blended in as a resume score of zero.
C1_FailureNotBlended ==
  (handler = "app" /\ pc = "done" /\ result = "ok" /\ llm_failed)
    => overall_score = (IF ranked_projects /= << >> THEN project_avg ELSE DefaultScore)

\* C2: every scored project carries a keyword_score, a similarity_score and
\* an overall_score between 0 and 100 (0 and 1000 tenths).
C2_ScoresInRange ==
  \A i \in 1..Len(ranked_projects) :
    /\ ranked_projects[i].keyword_score \in 0..1000
    /\ ranked_projects[i].similarity_score \in 0..1000
    /\ ranked_projects[i].overall_score \in 0..1000

\* a ranking that holds a project matching every keyword of a job without
\* sharing all of the job's words
C2_Witness ==
  /\ handler = "rank" /\ pc = "done"
  /\ \E i \in 1..Len(ranked_projects) :
       /\ ranked_projects[i].keyword_score = 1000
       /\ ranked_projects[i].similarity_score \in 1..999
       /\ ranked_projects[i].overall_score \in 701..999

\* C3: the result of rank_projects_for_job holds scored input projects in
\* descending order of overall_score, and projects of equal score in the
\* order they had in the input.
C3_SortedStable ==
  \A a, b \in 1..Len(ranked_projects) :
    a < b =>
      \E i, j \in 1..Len(parsed_projects) :
        /\ ranked_projects[a] = ScoreOf[hash_seed, parsed_projects[i], job_description]
        /\ ranked_projects[b] = ScoreOf[hash_seed, parsed_projects[j], job_description]
        /\ \/ ranked_projects[a].overall_score > ranked_projects[b].overall_score
           \/ /\ ranked_projects[a].overall_score = ranked_projects[b].overall_score
              /\ i < j

\* a full ranking with a tie and a strict step whose order differs from
\* the order of the input
C3_Witness ==
  /\ handler = "rank" /\ pc = "done"
  /\ Len(ranked_projects) = Len(parsed_projects)
  /\ Len(ranked_projects) >= 3
  /\ \E a, b \in 1..Len(ranked_projects) :
       a < b /\ ranked_projects[a].overall_score = ranked_projects[b].overall_score
  /\ \E a, b \in 1..Len(ranked_projects) :
       a < b /\ ranked_projects[a].overall_score > ranked_projects[b].overall_score
  /\ \E a \in 1..Len(ranked_projects) :
       ranked_projects[a].project_name /= parsed_projects[a].name

\* C4: for top_k >= 0 rank_projects_for_job returns exactly
\* min(top_k, len(projects)) entries, none for top_k = 0.
C4_ResultLength ==
  (handler = "rank" /\ pc = "done" /\ top_k >= 0)
    => Len(ranked_projects) = (IF top_k <= Len(projects) THEN top_k ELSE Len(projects))

\* a ranking cut to a top_k below the number of projects
C4_Witness ==
  /\ handler = "rank" /\ pc = "done"
  /\ top_k > 0 /\ top_k < Len(projects)
  /\ Len(ranked_projects) = top_k

\* C5: with a ranked project and a resume score r the overall score is
\* project_avg * 0.6 + r * 0.4 rounded to the nearest integer.
C5_BlendRounded ==
  (/\ handler = "app" /\ pc = "done" /\ result = "ok"
   /\ ranked_projects /= << >> /\ HasResumeScore(resume_analysis))
    => LET r == format_score(resume_analysis.overall_score)
           e == 6 * project_avg + 4 * r
       IN  e - 10 * overall_score \in -5..5

\* C6: project_avg is the mean of the overall scores of the first
\* min(3, n) ranked projects rounded to the nearest integer, and the overall
\* score is project_avg when there is no resume score.
C6_AverageRounded ==
  (handler = "app" /\ pc = "done" /\ result = "ok" /\ ranked_projects /= << >>)
    => LET n == IF Len(ranked_projects) < 3 THEN Len(ranked_projects) ELSE 3
           s == SumSeq([i \in 1..n |-> ranked_projects[i].overall_score])
       IN  /\ 2 * (s - 10 * n * project_avg) \in (-10 * n)..(10 * n)
           /\ ~HasResumeScore(resume_analysis) => overall_score = project_avg

\* C7: when nothing is ranked the analysis does not fail, and its overall
\* score is the resume score when there is one and 70 otherwise.
C7_EmptyRankingFallsBack ==
  (handler \in {"app", "latex_only"} /\ pc = "done" /\ ranked_projects = << >>)
    => /\ result = "ok"
       /\ overall_score =
            (IF resume_analysis.is_dict /\ HasResumeScore(resume_analysis)
             THEN format_score(resume_analysis.overall_score)
             ELSE DefaultScore)

\* C8: the overall score of a returned analysis is an integer between 0 and
\* 100, whatever the project scores are and whatever number or string the
\* resume analysis reports as its overall_score.
C8_OverallInRange ==
  (handler \in {"app", "latex_only"} /\ result \in {"ok", "error"})
    => overall_score \in 0..100

\* an analysis returned for a resume score that is no number between 0 and
\* 100 as it stands
C8_Witness ==
  /\ handler = "app" /\ pc = "done" /\ result = "ok"
  /\ ranked_projects /= << >>
  /\ HasResumeScore(resume_analysis)
  /\ \/ resume_analysis.overall_score.kind = "int" /\ resume_analysis.overall_score.v > 100
     \/ resume_analysis.overall_score.kind = "str"

\* C9: no keyword of missing_keywords is among the extracted keywords of an
\* analysed project.
C9_MissingNotCovered ==
  \A i \in 1..Len(missing_keywords) :
    missing_keywords[i].keyword \notin Range(AllProjectKeywords(hash_seed, parsed_projects))

\* missing keywords reported for a job some of whose keywords the projects
\* cover
C9_Witness ==
  /\ handler = "app" /\ pc = "done" /\ result = "ok"
  /\ missing_keywords /= << >>
  /\ \E i \in 1..Len(job_keywords) :
       job_keywords[i] \in Range(AllProjectKeywords(hash_seed, parsed_projects))

\* C10: missing_keywords holds the job keywords no project covers, in the
\* order of the job keywords, cut to the cap (10 in app.py, 15 in analyzer.py).
C10_MissingInJobOrder ==
  (/\ handler \in {"app", "latex_only"}
   /\ pc \in {"phrasing", "score", "done"}
   /\ result \in {"pending", "ok"}
   /\ parsed_projects /= << >> \/ handler = "latex_only")
    => LET covered   == Range(AllProjectKeywords(hash_seed, parsed_projects))
           uncovered == SelectSeq(job_keywords, LAMBDA kw : kw \notin covered)
           cap       == IF handler = "app" THEN 10 ELSE 15
       IN  [i \in 1..Len(missing_keywords) |-> missing_keywords[i].keyword]
             = SubSeq(uncovered, 1, IF Len(uncovered) < cap THEN Len(uncovered) ELSE cap)

\* C11: identical inputs to keyword extraction, scoring, ranking and the
\* missing-keyword computation give identical outputs, also in another run
\* of the program (another string-hash seed).
C11_SameOutputInEveryRun ==
  /\ (handler = "extract" /\ pc = "done")
       => \A seed \in 1..NumSeeds :
            job_keywords = extract_keywords_from_text(seed, nltk_ok, job_description, max_kw)
  /\ (handler = "rank" /\ pc = "done")
       => \A seed \in 1..NumSeeds :
            ranked_projects = rank_projects_for_job(seed, parsed_projects, job_description, top_k)
  /\ (handler = "app" /\ pc = "phrasing")
       => \A seed \in 1..NumSeeds :
            [i \in 1..Len(missing_keywords) |-> missing_keywords[i].keyword]
              = AppMissingOf[seed, nltk_ok, job_description, parsed_projects]

\* C12: in the result of extract_keywords_from_text every technical term
\* of the text stands before every other term, and the technical terms
\* stand in the order in which the text first shows them, none twice.
C12_TechnicalTermsFirst ==
  (handler = "extract" /\ pc = "done")
    => LET words  == LowerText(job_description)
           seen   == Dedup(SelectSeq(words, LAMBDA w : w \in TextTechTerms))
           isTech(kw) == Len(kw) = 1 /\ kw[1] \in Range(seen)
           tech   == SelectSeq(job_keywords, isTech)
       IN  /\ \A i, j \in 1..Len(job_keywords) :
                (i < j /\ isTech(job_keywords[j])) => isTech(job_keywords[i])
           /\ Len(tech) <= Len(seen)
           /\ \A i \in 1..Len(tech) : tech[i] = <<seen[i]>>

C14_ShortTextAsIs ==
  (handler = "extract" /\ pc = "done")
    => LET qualifying == SelectSeq(LowerText(job_description),
                           LAMBDA t : IsAlpha(t) /\ Len(Spell(t)) > 2 /\ t \notin StopWords)
       IN  /\ job_description = << >> => job_keywords = << >>
           /\ (nltk_ok /\ Len(qualifying) < 5)
                => job_keywords = [i \in 1..Len(qualifying) |-> <<Lemmatize(qualifying[i])>>]

\* a short text with a stop word, a plural and a repeated or technical
\* word, returned token by token
C14_Witness ==
  /\ handler = "extract" /\ pc = "done" /\ nltk_ok
  /\ Len(job_keywords) \in 2..4
  /\ Len(job_keywords) < Len(job_description)
  /\ \E i \in 1..Len(job_keywords) : job_keywords[i] = <<"service">>

\* C15: extract_keywords_from_text propagates no error: when the tokenizer,
\* the lemmatizer or the TF-IDF step fails, its result is the result of the
\* simple fallback extractor.
C15_FallbackOnFailure ==
  (handler = "extract" /\ pc = "done")
    => /\ result = "ok"
       /\ (/\ job_description /= << >>
           /\ \/ ~nltk_ok
              \/ /\ Len(LemmatizedTokens(job_description)) >= 5
                 /\ TfidfRaises(max_kw))
            => job_keywords = simple_keyword_extraction(job_description, max_kw)

\* a failing NLTK step on a text whose fallback result is not empty and
\* differs from the tokens the NLTK steps would give
C15_Witness ==
  /\ handler = "extract" /\ pc = "done" /\ ~nltk_ok
  /\ job_keywords /= << >>
  /\ Len(job_keywords) < max_kw
  /\ job_keywords /= [i \in 1..Len(LemmatizedTokens(job_description)) |->
                        <<LemmatizedTokens(job_description)[i]>>]

\* C16: for an empty job description every scored project has keyword_score
\* 0, similarity_score 0, overall_score 0.0 and no matched keyword.
C16_EmptyJobScoresZero ==
  job_description = << >>
    => \A i \in 1..Len(ranked_projects) :
         /\ ranked_projects[i].keyword_score = 0
         /\ ranked_projects[i].similarity_score = 0
         /\ ranked_projects[i].overall_score = 0
         /\ ranked_projects[i].matched_keywords = << >>

\* C17: matched_keywords of a scored project holds exactly the extracted
\* keywords of the project that occur in the lowercased job description, in
\* the order of the extracted keyword list.
C17_MatchedSubsequence ==
  \A r \in 1..Len(ranked_projects) :
    \E p \in 1..Len(parsed_projects) :
      LET kws     == ProjectKeywordsOf[hash_seed, parsed_projects[p]]
          matched == ranked_projects[r].matched_keywords
          pos(kw) == CHOOSE i \in 1..Len(kws) : kws[i] = kw
      IN  /\ parsed_projects[p].name = ranked_projects[r].project_name
          /\ Range(matched) = {kw \in Range(kws) :
                                 \/ kw[1] = ""
                                 \/ \E w \in Range(LowerText(job_description)) :
                                      IsSubSeq(Spell(kw[1]), Spell(w))}
          /\ \A a, b \in 1..Len(matched) : a < b => pos(matched[a]) < pos(matched[b])

\* a project with several keywords of which some, not all, are matched
C17_Witness ==
  /\ handler = "rank" /\ pc = "done"
  /\ \E r \in 1..Len(ranked_projects) :
       /\ Len(ranked_projects[r].matched_keywords) >= 2
       /\ \E p \in 1..Len(parsed_projects) :
            /\ parsed_projects[p].name = ranked_projects[r].project_name
            /\ Len(ranked_projects[r].matched_keywords)
                 < Len(ProjectKeywordsOf[hash_seed, parsed_projects[p]])

\* C18: the overall_score of a scored project equals
\* round(keyword_score * 0.7 + similarity_score * 0.3, 1) for the
\* keyword_score and similarity_score of the same result.
C18_OverallFromReported ==
  \A i \in 1..Len(ranked_projects) :
    ranked_projects[i].overall_score =
      RoundHalfEven(7 * ranked_projects[i].keyword_score
                      + 3 * ranked_projects[i].similarity_score, 10)

\* C19: a missing keyword has importance high exactly when its index in
\* the job-keyword list is below 5, and medium otherwise.
C19_ImportanceByIndex ==
  \A i \in 1..Len(missing_keywords) :
    LET kw    == missing_keywords[i].keyword
        index == CHOOSE n \in 1..Len(job_keywords) :
                   /\ job_keywords[n] = kw
                   /\ \A m \in 1..(n - 1) : job_keywords[m] /= kw
    IN  /\ kw \in Range(job_keywords)
        /\ missing_keywords[i].importance = (IF index <= 5 THEN "high" ELSE "medium")

\* missing keywords of both kinds
C19_Witness ==
  /\ handler \in {"app", "latex_only"} /\ pc = "done" /\ result = "ok"
  /\ \E i, j \in 1..Len(missing_keywords) :
       /\ missing_keywords[i].importance = "high"
       /\ missing_keywords[j].importance = "medium"

\* C20: score_project_for_job and rank_projects_for_job leave their input
\* unchanged: the list handed in holds the same projects in the same order,
\* each with its name, tech_stack, date_range and description_points.
C20_InputUnchanged ==
  [][/\ handler = "rank" => projects' = projects
     /\ pc = "rank" => parsed_projects' = parsed_projects]_vars

\* a ranking whose order differs from the order of the list handed in
C20_Witness ==
  /\ handler = "rank" /\ pc = "done"
  /\ Len(ranked_projects) = Len(projects)
  /\ Len(projects) >= 2
  /\ projects = parsed_projects
  /\ ranked_projects[1].project_name /= projects[1].name

(***************************************************************************)
(* PDFParser._extract_projects_from_text called on its own                 *)
(***************************************************************************)
\* texts of up to MaxLines lines
PdfTexts == UNION { [1..n -> PdfLines] : n \in 0..MaxLines }

InitPdf ==
  /\ handler = "parse_projects" /\ pc = "start"
  /\ pdf_text \in PdfTexts
  /\ pdf_projects = << >>
  /\ AnalysisIdle /\ ApiIdle /\ StoresIdle

ParseProjects ==
  /\ handler = "parse_projects" /\ pc = "start"
  /\ pdf_projects' = extract_projects_from_text(pdf_text)
  /\ pc' = "done"
  /\ UNCHANGED << handler, analysis, pdf_text, api, stores >>

NextPdf == ParseProjects

SpecPdf == InitPdf /\ [][NextPdf]_vars

(***************************************************************************)
(* The endpoints of backend/app/main.py                                    *)
(***************************************************************************)
Request(endpoint, workspace_id, project_title, provider) ==
  [ endpoint |-> endpoint, workspace_id |-> workspace_id,
    project_title |-> project_title, provider |-> provider ]

\* a response: the status code and what the formulas read of the body
Response(status_code, projs, provider, count) ==
  [ status_code |-> status_code, projects |-> projs, provider |-> provider, count |-> count ]

HTTPException(status_code) == Response(status_code, << >>, "", 0)

Call(op, namespace) == [op |-> op, namespace |-> namespace]

\* what serving a request leaves: the index, the response, the calls made
Served(store, resp, made) == [index |-> store, response |-> resp, calls |-> made]

\* Pinecone while a request is served: answering, refusing writes and
\* deletes, or refusing everything
PineconeStates == {"up", "writes_fail", "down"}

\* POST /api/upload-projects
upload_projects(store, workspace_id, file, pinecone) ==
  IF WorkspaceMissing(workspace_id) THEN Served(store, HTTPException(400), << >>)
  ELSE IF workspace_id = None THEN Served(store, HTTPException(500), << >>)
  ELSE IF ~file.readable
  THEN Served(store, HTTPException(500), <<Call("parse_pdf", "")>>)
  ELSE
    LET namespace == hash_workspace_id(workspace_id)
        projs     == ParsedProjects[file]
        made      == <<Call("parse_pdf", ""), Call("upsert", namespace)>>
    IN  IF projs = << >>
        THEN Served(store, HTTPException(400), <<Call("parse_pdf", "")>>)
        ELSE IF pinecone /= "up"
        THEN Served(store_resume(store, user_id, UploadedText[file], projs, namespace, 1),
                    HTTPException(500), made)
        ELSE Served(store_resume(store, user_id, UploadedText[file], projs, namespace, 0),
                    Response(200, << >>, "", Len(projs)), made)

\* GET /api/projects
get_projects(store, workspace_id, pinecone, order, ties_descending) ==
  IF WorkspaceMissing(workspace_id) THEN Served(store, HTTPException(400), << >>)
  ELSE IF workspace_id = None THEN Served(store, HTTPException(500), << >>)
  ELSE
    LET namespace == hash_workspace_id(workspace_id)
        results   == semantic_search(store, user_id, top_k_get_projects, namespace,
                                     order, ties_descending)
    IN  IF pinecone = "down"
        THEN Served(store, HTTPException(500), <<Call("query", namespace)>>)
        ELSE Served(store, Response(200, ProjectChunks(results), "", 0),
                    <<Call("query", namespace)>>)

\* DELETE /api/projects/{project_title}; a delete that raises is passed over
delete_project(store, workspace_id, project_title, pinecone, order, ties_descending) ==
  IF WorkspaceMissing(workspace_id) THEN Served(store, HTTPException(400), << >>)
  ELSE IF workspace_id = None THEN Served(store, HTTPException(500), << >>)
  ELSE
    LET namespace == hash_workspace_id(workspace_id)
        results   == semantic_search(store, user_id, top_k_delete_project, namespace,
                                     order, ties_descending)
        hits      == SelectSeq(results, LAMBDA r : r.project_title = project_title)
        ids       == DeletedIds(results, project_title)
        made      == <<Call("query", namespace)>>
                       \o [i \in 1..Len(hits) |-> Call("delete", namespace)]
    IN  IF pinecone = "down"
        THEN Served(store, HTTPException(500), <<Call("query", namespace)>>)
        ELSE IF pinecone = "writes_fail" \/ hits = << >>
        THEN Served(store, HTTPException(404), made)
        ELSE Served({v \in store : ~(v.namespace = namespace /\ v.id \in ids)},
                    Response(200, << >>, "", Len(hits)), made)

\* ResumeAnalyzer.analyze: the chunks of the resume and of the projects go
\* to store_resume, and the search for recommendations to
\* find_relevant_projects, both without a namespace
analyze(store, resume_text, projs, pinecone, llm_ok) ==
  LET resume_id == get_resume_id(resume_text)
  IN  IF pinecone /= "up"
      THEN Served(store_resume(store, resume_id, resume_text, projs, "default", 1),
                  HTTPException(500), <<Call("upsert", "default")>>)
      ELSE IF ~llm_ok
      THEN Served(store_resume(store, resume_id, resume_text, projs, "default", 0),
                  HTTPException(500), <<Call("upsert", "default")>>)
      ELSE Served(store_resume(store, resume_id, resume_text, projs, "default", 0),
                  Response(200, << >>, "", Len(projs)),
                  <<Call("upsert", "default"), Call("query", "default")>>)

\* POST /api/analyze
api_analyze_resume(store, workspace_id, resume_file, pinecone, llm_ok, order, ties_descending) ==
  IF WorkspaceMissing(workspace_id) THEN Served(store, HTTPException(400), << >>)
  ELSE IF workspace_id = None THEN Served(store, HTTPException(500), << >>)
  ELSE IF ~resume_file.readable
  THEN Served(store, HTTPException(500), <<Call("parse_pdf", "")>>)
  ELSE
    LET namespace   == hash_workspace_id(workspace_id)
        all_results == semantic_search(store, user_id, top_k_analyze, namespace,
                                       order, ties_descending)
        project_results == ProjectChunks(all_results)
        projs       == [i \in 1..Len(project_results) |-> StoredProject(project_results[i])]
        inner       == analyze(store, resume_file.text, projs, pinecone, llm_ok)
    IN  IF pinecone = "down"
        THEN Served(store, HTTPException(500),
                    <<Call("parse_pdf", ""), Call("query", namespace)>>)
        ELSE Served(inner.index, inner.response,
                    <<Call("parse_pdf", ""), Call("query", namespace),
                      Call("query", namespace)>> \o inner.calls)

\* the form values of POST /api/llm-provider
Providers == {"groq", "ollama", "openai", ""}

InitApi ==
  /\ handler = "api" /\ pc = "start"
  /\ rag_index = {}
  /\ LLM_PROVIDER \in {None, "ollama"}
  /\ analyzer = getenv_LLM_PROVIDER(LLM_PROVIDER)
  /\ request = NoRequest /\ response = NoResponse /\ calls = << >> /\ served = 0
  /\ AnalysisIdle /\ PdfIdle /\ StoresIdle

\* the same service receiving large uploads and listings only
InitBulk ==
  /\ handler = "api_bulk" /\ pc = "start"
  /\ rag_index = {}
  /\ LLM_PROVIDER = None
  /\ analyzer = getenv_LLM_PROVIDER(LLM_PROVIDER)
  /\ request = NoRequest /\ response = NoResponse /\ calls = << >> /\ served = 0
  /\ AnalysisIdle /\ PdfIdle /\ StoresIdle

\* the files the clients upload, and the number of requests followed
Uploads == IF handler = "api_bulk" THEN BulkFiles ELSE PdfFiles
RequestLimit == IF handler = "api_bulk" THEN MaxBulkRequests ELSE MaxRequests

\* what every endpoint leaves alone
ApiFrame == UNCHANGED << handler, pc, analysis, pdf, stores >>

UploadProjects ==
  /\ handler \in {"api", "api_bulk"} /\ served < RequestLimit
  /\ \E workspace_id \in WorkspaceIds, file \in Uploads, pinecone \in PineconeStates :
       LET r == upload_projects(rag_index, workspace_id, file, pinecone)
       IN  /\ rag_index' = r.index /\ response' = r.response /\ calls' = r.calls
           /\ request' = Request("upload_projects", workspace_id, << >>, "")
  /\ served' = served + 1
  /\ UNCHANGED << LLM_PROVIDER, analyzer >>
  /\ ApiFrame

GetProjects ==
  /\ handler \in {"api", "api_bulk"} /\ served < RequestLimit
  /\ \E workspace_id \in WorkspaceIds, pinecone \in PineconeStates,
        order \in Orders, ties_descending \in BOOLEAN :
       LET r == get_projects(rag_index, workspace_id, pinecone, order, ties_descending)
       IN  /\ rag_index' = r.index /\ response' = r.response /\ calls' = r.calls
           /\ request' = Request("get_projects", workspace_id, << >>, "")
  /\ served' = served + 1
  /\ UNCHANGED << LLM_PROVIDER, analyzer >>
  /\ ApiFrame

DeleteProject ==
  /\ handler = "api" /\ served < MaxRequests
  /\ \E workspace_id \in WorkspaceIds, project_title \in Kinds \ {<<"full_resume">>},
        pinecone \in PineconeStates, order \in Orders, ties_descending \in BOOLEAN :
       LET r == delete_project(rag_index, workspace_id, project_title, pinecone,
                               order, ties_descending)
       IN  /\ rag_index' = r.index /\ response' = r.response /\ calls' = r.calls
           /\ request' = Request("delete_project", workspace_id, project_title, "")
  /\ served' = served + 1
  /\ UNCHANGED << LLM_PROVIDER, analyzer >>
  /\ ApiFrame

AnalyzeResume ==
  /\ handler = "api" /\ served < MaxRequests
  /\ \E workspace_id \in WorkspaceIds, resume_file \in ResumeFiles,
        pinecone \in PineconeStates, llm_ok \in BOOLEAN,
        order \in Orders, ties_descending \in BOOLEAN :
       LET r == api_analyze_resume(rag_index, workspace_id, resume_file, pinecone, llm_ok,
                               order, ties_descending)
       IN  /\ rag_index' = r.index /\ response' = r.response /\ calls' = r.calls
           /\ request' = Request("analyze_resume", workspace_id, << >>, "")
  /\ served' = served + 1
  /\ UNCHANGED << LLM_PROVIDER, analyzer >>
  /\ ApiFrame

\* POST /api/llm-provider; ResumeAnalyzer() may raise after the environment
\* was written, which leaves the old analyzer in place
SetLlmProvider ==
  /\ handler = "api" /\ served < MaxRequests
  /\ \E provider \in Providers, init_ok \in BOOLEAN :
       /\ request' = Request("set_llm_provider", "", << >>, provider)
       /\ IF ~ProviderAllowed(provider)
          THEN /\ response' = HTTPException(400)
               /\ UNCHANGED << LLM_PROVIDER, analyzer >>
          ELSE /\ LLM_PROVIDER' = provider
               /\ IF init_ok
                  THEN analyzer' = provider /\ response' = Response(200, << >>, provider, 0)
                  ELSE analyzer' = analyzer /\ response' = HTTPException(500)
  /\ calls' = << >>
  /\ served' = served + 1
  /\ UNCHANGED rag_index
  /\ ApiFrame

\* GET /api/llm-provider
GetLlmProvider ==
  /\ handler = "api" /\ served < MaxRequests
  /\ request' = Request("get_llm_provider", "", << >>, "")
  /\ response' = Response(200, << >>, getenv_LLM_PROVIDER(LLM_PROVIDER), 0)
  /\ calls' = << >>
  /\ served' = served + 1
  /\ UNCHANGED << rag_index, LLM_PROVIDER, analyzer >>
  /\ ApiFrame

NextApi ==
  \/ UploadProjects
  \/ GetProjects
  \/ DeleteProject
  \/ AnalyzeResume
  \/ SetLlmProvider
  \/ GetLlmProvider

SpecApi == InitApi /\ [][NextApi]_vars

NextBulk ==
  \/ UploadProjects
  \/ GetProjects

SpecBulk == InitBulk /\ [][NextBulk]_vars

(***************************************************************************)
(* ResumeAnalyzer.upload_projects_latex (src/analyzer.py) and the project  *)
(* vectors of VectorStore (src/vector_store.py)                            *)
(***************************************************************************)
\* the LaTeX contents uploaded: empty, one block without description
\* points, one project, two projects, and a block that yields no project
\* before one that does
UploadContents ==
  { << >>,
    <<LatexBlock(ProjD)>>,
    <<LatexBlock(ProjA)>>,
    <<LatexBlock(ProjB), LatexBlock(ProjA)>>,
    <<LatexBlock(ProjD), LatexBlock(ProjF)>> }

\* project_text of upload_projects_latex
LatexProjectText(project) ==
  project.name \o <<"Technologies:">> \o JoinComma([i \in 1..Len(project.tech_stack) |->
                                                      <<project.tech_stack[i]>>])
    \o get_full_description(project)

\* all_chunks: the texts are shorter than CHUNK_SIZE, so the splitter makes
\* one chunk of each project
LatexChunks(parsed) ==
  [i \in 1..Len(parsed) |->
     [ project_index |-> i - 1, project_name |-> parsed[i].name,
       content |-> LatexProjectText(parsed[i]) ]]

\* VectorStore.clear_all_projects: the index emptied, or left as it is when
\* describe_index_stats or both deletes raise (the exceptions are logged)
clear_all_projects(store, clear_ok) == IF clear_ok THEN {} ELSE store

\* VectorStore.store_project_chunks: ids
\* "project_<project_index>_chunk_<i>_<seconds>"; when the embedding or the
\* upsert of the batch raises, the exception is logged and nothing is stored
store_project_chunks(store, chunks, now, store_ok) ==
  IF ~store_ok THEN store
  ELSE LET vectors == { [ id            |-> <<chunks[i].project_index, i - 1, now>>,
                          project_index |-> chunks[i].project_index,
                          project_name  |-> chunks[i].project_name,
                          content       |-> chunks[i].content ] : i \in 1..Len(chunks) }
       IN  {v \in store : \A w \in vectors : w.id /= v.id} \cup vectors

\* an upload that clears the index before it looks at what was parsed
IndexClearedFirst(store, parsed, clear_ok) == clear_all_projects(store, clear_ok)

\* the index after the check of parsed_projects and clear_all_projects
IndexAfterClear(store, parsed, clear_ok) ==
  IF parsed = << >> THEN store ELSE clear_all_projects(store, clear_ok)

\* ResumeAnalyzer.upload_projects_latex
upload_projects_latex(store, content, now, clear_ok, store_ok) ==
  LET parsed == parse_projects_from_latex(content)
      chunks == LatexChunks(parsed)
  IN  IF parsed = << >>
      THEN [ index  |-> IndexAfterClear(store, parsed, clear_ok),
             result |-> [status |-> "error", projects_count |-> 0, total_chunks |-> 0],
             calls  |-> << >> ]
      ELSE [ index  |-> store_project_chunks(IndexAfterClear(store, parsed, clear_ok),
                                             chunks, now, store_ok),
             result |-> [ status |-> "success", projects_count |-> Len(parsed),
                          total_chunks |-> Len(chunks) ],
             calls  |-> <<"clear_all_projects", "store_project_chunks">> ]

InitUpload ==
  /\ handler = "upload_projects_latex" /\ pc = "start"
  /\ UploadIdle
  /\ AnalysisIdle /\ PdfIdle /\ ApiIdle /\ ScanIdle

\* one call of upload_projects_latex; the clock reads the second of the
\* call before or the next one
UploadProjectsLatex ==
  /\ handler = "upload_projects_latex" /\ uploads < MaxUploads
  /\ \E content \in UploadContents, now \in {uploads, uploads + 1},
        clear_ok \in BOOLEAN, store_ok \in BOOLEAN :
       LET r == upload_projects_latex(projects_index, content, now, clear_ok, store_ok)
       IN  /\ latex_content' = content
           /\ projects_index' = r.index
           /\ upload_result' = r.result
           /\ upload_calls' = r.calls
  /\ uploads' = uploads + 1
  /\ UNCHANGED << handler, pc, analysis, pdf, api, scan >>

NextUpload == UploadProjectsLatex

SpecUpload == InitUpload /\ [][NextUpload]_vars

(***************************************************************************)
(* DataManager.scan_and_process_resumes and scan_and_process_projects      *)
(* (src/data_manager.py)                                                   *)
(*                                                                         *)
(* A file of the directory is a record with the stem and the extension of  *)
(* its name and its content; a cache entry is a record with its key, the   *)
(* name of the file it was made from and the file_hash.                    *)
(***************************************************************************)
\* the contents of a file: two that can be processed, one that cannot (a
\* corrupt document, a LaTeX file without projects), and a file that cannot
\* be read
Unreadable == "<unreadable>"
FileContents == {"a", "b", "x", Unreadable}

\* the file names of the directory of each scan, in the order of the two
\* globs; the order inside one glob is the file system's
GlobOrders ==
  [ scan_resumes  |-> { << <<"cv", "pdf">>, <<"old", "pdf">>, <<"cv", "docx">> >>,
                        << <<"old", "pdf">>, <<"cv", "pdf">>, <<"cv", "docx">> >> },
    scan_projects |-> { << <<"p", "tex">>, <<"q", "tex">>, <<"p", "txt">> >>,
                        << <<"q", "tex">>, <<"p", "tex">>, <<"p", "txt">> >> } ]

FileNames(kind) == UNION { Range(order) : order \in GlobOrders[kind] }

\* the directories: each name absent or present with one of the contents
Directories(kind) ==
  { { [stem |-> name[1], ext |-> name[2], content |-> c[name]] : name \in present } :
      present \in SUBSET FileNames(kind), c \in [FileNames(kind) -> FileContents] }

\* DataManager._get_file_hash: the MD5 of the bytes, "" when reading fails
get_file_hash(content) ==
  IF content = "a" THEN "0cc175b9c0f1b6a831c399e269772661"
  ELSE IF content = "b" THEN "92eb5ffee6ae2fec3ad71c777531578f"
  ELSE IF content = "x" THEN "9dd4e461268c8034f5c8564e155c67a6"
  ELSE ""

\* the LaTeX a project file holds
LatexOf(content) ==
  IF content = "a" THEN <<LatexBlock(ProjA)>>
  ELSE IF content = "b" THEN <<LatexBlock(ProjF), LatexBlock(ProjB)>>
  ELSE <<LatexBlock(ProjD)>>

\* the file is processed: process_resume returns, or the file is read and
\* parse_projects_from_latex finds a project
Processed(kind, content) ==
  /\ content /= Unreadable
  /\ IF kind = "scan_projects" THEN parse_projects_from_latex(LatexOf(content)) /= << >>
     ELSE content /= "x"

\* the loop over the files of a scan
RECURSIVE ScanLoop(_, _, _, _, _)
ScanLoop(kind, files, cache, results, outcomes) ==
  IF files = << >>
  THEN [cache |-> cache, results |-> results, outcomes |-> outcomes]
  ELSE
    LET file      == Head(files)
        file_hash == get_file_hash(file.content)
        key       == file.stem
        did(what) == outcomes \cup {[stem |-> file.stem, ext |-> file.ext, outcome |-> what]}
    IN  IF \E e \in cache : e.key = key /\ e.file_hash = file_hash
        THEN ScanLoop(kind, Tail(files), cache,
                      [results EXCEPT !.cached = @ + 1], did("cached"))
        ELSE IF Processed(kind, file.content)
        THEN ScanLoop(kind, Tail(files),
                      {e \in cache : e.key /= key}
                        \cup {[ key |-> key, filename |-> <<file.stem, file.ext>>,
                                file_hash |-> file_hash ]},
                      [results EXCEPT !.processed = @ + 1], did("processed"))
        ELSE ScanLoop(kind, Tail(files), cache,
                      [results EXCEPT !.errors = @ + 1], did("error"))

\* scan_and_process_resumes and scan_and_process_projects on a directory
\* listed in the given order
scan_and_process(kind, directory, order, cache) ==
  LET present == SelectSeq(order, LAMBDA name :
                             \E f \in directory : f.stem = name[1] /\ f.ext = name[2])
      files   == [i \in 1..Len(present) |->
                    CHOOSE f \in directory : f.stem = present[i][1] /\ f.ext = present[i][2]]
  IN  ScanLoop(kind, files, cache,
               [processed |-> 0, cached |-> 0, errors |-> 0, total |-> Len(files)], {})

InitScan ==
  /\ handler \in {"scan_resumes", "scan_projects"} /\ pc = "start"
  /\ data_dir \in Directories(handler)
  /\ cached_files = {} /\ scan_results = NoScan /\ scan_outcomes = {}
  /\ files_changed = FALSE /\ scans = 0 /\ edits = 0
  /\ AnalysisIdle /\ PdfIdle /\ ApiIdle /\ UploadIdle

ScanFrame == UNCHANGED << handler, pc, analysis, pdf, api, upload >>

\* one run of a scan
Scan(kind) ==
  /\ scans < MaxScans
  /\ \E order \in GlobOrders[kind] :
       LET r == scan_and_process(kind, data_dir, order, cached_files)
       IN  /\ cached_files' = r.cache
           /\ scan_results' = r.results
           /\ scan_outcomes' = r.outcomes
  /\ files_changed' = FALSE
  /\ scans' = scans + 1
  /\ UNCHANGED << data_dir, edits >>
  /\ ScanFrame

\* DataManager.scan_and_process_resumes
ScanResumes ==
  /\ handler = "scan_resumes"
  /\ Scan("scan_resumes")

\* DataManager.scan_and_process_projects
ScanProjects ==
  /\ handler = "scan_projects"
  /\ Scan("scan_projects")

\* a file of the directory is written with another content, or removed
ChangeFile ==
  /\ handler \in {"scan_resumes", "scan_projects"} /\ edits < MaxEdits
  /\ \E name \in FileNames(handler), content \in FileContents, removed \in BOOLEAN :
       LET others == {f \in data_dir : ~(f.stem = name[1] /\ f.ext = name[2])}
       IN  /\ data_dir' = IF removed THEN others
                          ELSE others \cup {[stem |-> name[1], ext |-> name[2],
                                             content |-> content]}
           /\ data_dir' /= data_dir
  /\ files_changed' = TRUE
  /\ edits' = edits + 1
  /\ UNCHANGED << cached_files, scan_results, scan_outcomes, scans >>
  /\ ScanFrame

NextScan ==
  \/ ScanResumes
  \/ ScanProjects
  \/ ChangeFile

SpecScan == InitScan /\ [][NextScan]_vars

(***************************************************************************)
(* C28 to C29 and C21 to C27: the services around the analysis             *)
(***************************************************************************)

\* C28: _extract_projects_from_text returns one project per title line (a
\* non-empty line that is no bullet and holds a bar), in the order of the
\* input, each with the bullet lines between its title line and the next
\* title line as its description; bullets before the first title line
\* belong to no project.
C28_OneProjectPerTitleLine ==
  (handler = "parse_projects" /\ pc = "done") =>
    LET IsTitle(line) == line /= << >> /\ line[1] /= "*" /\ "|" \in Range(line)
        at         == SelectSeq([i \in 1..Len(pdf_text) |-> i],
                                LAMBDA i : IsTitle(pdf_text[i]))
        upto(j)    == IF j < Len(at) THEN at[j + 1] - 1 ELSE Len(pdf_text)
        bullets(j) == SelectSeq(SubSeq(pdf_text, at[j] + 1, upto(j)),
                                LAMBDA l : l /= << >> /\ l[1] = "*")
    IN  /\ Len(pdf_projects) = Len(at)
        /\ \A j \in 1..Len(at) :
             /\ pdf_projects[j].title = SplitOn(pdf_text[at[j]], "|")[1]
             /\ pdf_projects[j].description =
                  JoinLines([b \in 1..Len(bullets(j)) |-> Tail(bullets(j)[b])])

\* C21: DELETE /api/projects/{project_title} removes from the workspace only
\* chunks whose project_title is the given title: every chunk of another
\* project, the full-resume chunk and every chunk of another namespace stay
\* stored, whatever the order of the search results.
C21_DeleteRemovesOnlyTitle ==
  [][ (handler = "api" /\ request'.endpoint = "delete_project") =>
        \A v \in rag_index \ rag_index' :
           /\ v.namespace = hash_workspace_id(request'.workspace_id)
           /\ v.chunk_type = "project"
           /\ v.project_title = request'.project_title ]_vars

\* C22: every write, query and delete made while a request with workspace
\* id w is served uses the namespace hash_workspace_id(w), and no vector is
\* ever stored in the "default" namespace.
C22_OnlyWorkspaceNamespace ==
  handler = "api" =>
    /\ \A i \in 1..Len(calls) :
         calls[i].op \in {"upsert", "query", "delete"} =>
           calls[i].namespace = hash_workspace_id(request.workspace_id)
    /\ \A v \in rag_index : v.namespace /= "default"

\* C25: upload_projects, get_projects, delete_project and analyze_resume
\* called without the X-Workspace-ID header answer 400 and neither parse a
\* PDF nor read, write or delete in the vector store.
C25_MissingWorkspaceIs400 ==
  [][ ( /\ handler = "api"
        /\ request'.endpoint \in {"upload_projects", "get_projects",
                                  "delete_project", "analyze_resume"}
        /\ request'.workspace_id = None ) =>
        /\ response'.status_code = 400
        /\ calls' = << >>
        /\ rag_index' = rag_index ]_vars

\* a request without the header came after projects were stored, and was
\* answered 400 with the index as it was
C25_Witness ==
  /\ handler = "api"
  /\ request.endpoint = "delete_project" /\ request.workspace_id = None
  /\ response.status_code = 400
  /\ \E v \in rag_index : v.chunk_type = "project"

\* C26: POST /api/llm-provider with a provider other than groq and ollama
\* answers 400 and leaves LLM_PROVIDER and the analyzer as they were; a call
\* with one of the two names sets LLM_PROVIDER to it, no other endpoint
\* writes it, and GET /api/llm-provider reports its value (groq when it was
\* never set): the provider of the last call that passed the check, or the
\* initial setting.  A call that passed the check counts even when building
\* the new analyzer raised and the call was answered 500.
C26_ProviderOfLastAcceptedCall ==
  [][ handler = "api" =>
        /\ ( request'.endpoint = "set_llm_provider"
               /\ request'.provider \notin {"groq", "ollama"} ) =>
             ( /\ response'.status_code = 400
               /\ LLM_PROVIDER' = LLM_PROVIDER /\ analyzer' = analyzer )
        /\ ( request'.endpoint = "set_llm_provider"
               /\ request'.provider \in {"groq", "ollama"} ) =>
             LLM_PROVIDER' = request'.provider
        /\ request'.endpoint /= "set_llm_provider" =>
             ( LLM_PROVIDER' = LLM_PROVIDER /\ analyzer' = analyzer )
        /\ request'.endpoint = "get_llm_provider" =>
             ( /\ response'.status_code = 200
               /\ response'.provider = IF LLM_PROVIDER = None THEN "groq"
                                       ELSE LLM_PROVIDER ) ]_vars

\* groq was set by a call, and a later call naming openai was answered 400
\* and left it set
C26_Witness ==
  /\ handler = "api"
  /\ request.endpoint = "set_llm_provider" /\ request.provider = "openai"
  /\ response.status_code = 400
  /\ LLM_PROVIDER = "groq" /\ analyzer = "groq"

\* C29: store_resume writes the chunks 0..n of an upload of n projects and
\* deletes nothing, so the chunks of an earlier, larger upload with an index
\* above n stay stored; and get_projects returns those stale chunks: of each
\* title it returns at least as many chunks as stale ones are stored.  The
\* number n of the last upload is read from the full text stored as chunk 0.
C29_StaleChunksStoredAndReturned ==
  [][ handler = "api_bulk" =>
        /\ ( request'.endpoint = "upload_projects" /\ response'.status_code = 200 ) =>
             /\ \A i \in 0..response'.count :
                  \E v \in rag_index' :
                     /\ v.namespace = hash_workspace_id(request'.workspace_id)
                     /\ v.id = <<user_id, i>>
             /\ \A v \in rag_index :
                  ( v.namespace /= hash_workspace_id(request'.workspace_id)
                      \/ v.id[2] > response'.count ) => v \in rag_index'
        /\ ( request'.endpoint = "get_projects" /\ response'.status_code = 200 ) =>
             LET mine  == { v \in rag_index :
                              /\ v.namespace = hash_workspace_id(request'.workspace_id)
                              /\ v.resume_id = user_id }
                 n     == IF \E v \in mine : v.id[2] = 0
                          THEN Len(SelectSeq((CHOOSE v \in mine : v.id[2] = 0).text,
                                             LAMBDA l : l /= << >> /\ l[1] = "Project:"))
                          ELSE 0
                 stale == { v \in mine : v.id[2] > n }
             IN  \A title \in { v.project_title : v \in stale } :
                    Cardinality({ v \in stale : v.project_title = title })
                      <= Len(SelectSeq(response'.projects,
                                       LAMBDA r : r.project_title = title)) ]_vars

\* C23: when upload_projects_latex returns status 'success' with
\* total_chunks = n, the n chunks of the parsed projects are stored in the
\* projects index: a store that failed never comes with 'success'.
C23_SuccessMeansStored ==
  (handler = "upload_projects_latex" /\ upload_result.status = "success") =>
    LET chunks == LatexChunks(parse_projects_from_latex(latex_content))
    IN  /\ upload_result.total_chunks = Len(chunks)
        /\ \A i \in 1..Len(chunks) :
             \E v \in projects_index :
                /\ v.project_index = chunks[i].project_index
                /\ v.project_name = chunks[i].project_name
                /\ v.content = chunks[i].content

\* C24: upload_projects_latex clears the stored project vectors only after
\* the content parsed to at least one project: when none is found it
\* returns status 'error', runs neither the clear nor a store, and the
\* project vectors stay as they were.
C24_NoClearWithoutProjects ==
  [][ ( /\ handler = "upload_projects_latex"
        /\ uploads' = uploads + 1
        /\ parse_projects_from_latex(latex_content') = << >> ) =>
        /\ upload_result'.status = "error"
        /\ upload_calls' = << >>
        /\ projects_index' = projects_index ]_vars

\* a content without a project was uploaded while project vectors were
\* stored, and the call returned 'error' with the vectors still there
C24_Witness ==
  /\ handler = "upload_projects_latex"
  /\ latex_content = <<LatexBlock(ProjD)>>
  /\ upload_result.status = "error"
  /\ \E v \in projects_index : v.project_name = ProjA.name

\* C27: after a scan processed + cached + errors = total; a file whose hash
\* equals the hash stored under its key is counted as cached and the entry
\* of its key is left as it was; and a scan that follows a scan without a
\* change of the files processes none of the files processed by that scan.
C27_ScanCountsAndCache ==
  [][ ( handler \in {"scan_resumes", "scan_projects"} /\ scans' = scans + 1 ) =>
        /\ scan_results'.processed + scan_results'.cached + scan_results'.errors
             = scan_results'.total
        /\ scan_results'.total = Cardinality(data_dir)
        /\ \A f \in data_dir :
             ( \E e \in cached_files :
                  e.key = f.stem /\ e.file_hash = get_file_hash(f.content) ) =>
               /\ [stem |-> f.stem, ext |-> f.ext, outcome |-> "cached"] \in scan_outcomes'
               /\ \A e \in cached_files : e.key = f.stem => e \in cached_files'
        /\ ( scans >= 1 /\ ~files_changed ) =>
             \A o \in scan_outcomes :
                o.outcome = "processed" => o \notin scan_outcomes' ]_vars
====
